---- MODULE Spec2Model ----
(***************************************************************************)
(* A model of the NEURAX accelerator runtime (software/lib): the device    *)
(* lifecycle and register protocol (neurax_core.c), the validation         *)
(* functions (neurax_utils.c) and the convolution, pooling and activation  *)
(* kernels (neurax_conv2d.c, neurax_layers.c).                             *)
(*                                                                         *)
(* Numbers.  A C float is modelled as an integer count of 1/FRAC (a value  *)
(* v stands for v/FRAC); the values the model draws are small dyadic       *)
(* rationals, which float32 and double hold exactly, so promotion, fmin,   *)
(* fmax and the integer casts are exact.  uint32_t arithmetic that can     *)
(* wrap is done on pairs <<hi, lo>> of 16-bit halves (the model checker's  *)
(* integers are 32-bit signed and cannot hold 2^32).                       *)
(***************************************************************************)
EXTENDS Integers, Sequences, FiniteSets, TLC

(***************************************************************************)
(* neurax.h: error codes, element types, selectors                         *)
(***************************************************************************)
NEURAX_SUCCESS == 0
NEURAX_ERROR_INVALID_PARAM == -1
NEURAX_ERROR_NOT_INITIALIZED == -2
NEURAX_ERROR_DEVICE_NOT_FOUND == -3
NEURAX_ERROR_MEMORY_ALLOCATION == -4
NEURAX_ERROR_HARDWARE_FAILURE == -5
NEURAX_ERROR_TIMEOUT == -6
NEURAX_ERROR_BUFFER_OVERFLOW == -8

NEURAX_DATA_UINT8 == 0
NEURAX_DATA_INT8 == 1
NEURAX_DATA_UINT16 == 2
NEURAX_DATA_INT16 == 3
NEURAX_DATA_FLOAT32 == 4

NEURAX_ACTIVATION_RELU == 0
NEURAX_ACTIVATION_TANH == 1
NEURAX_ACTIVATION_SIGMOID == 2
NEURAX_ACTIVATION_LINEAR == 3

NEURAX_POOL_MAX == 0
NEURAX_POOL_AVERAGE == 1

DataTypes ==
    {NEURAX_DATA_UINT8, NEURAX_DATA_INT8, NEURAX_DATA_UINT16,
     NEURAX_DATA_INT16, NEURAX_DATA_FLOAT32}

(***************************************************************************)
(* neurax_private.h: register offsets, control and status bits             *)
(***************************************************************************)
NEURAX_REG_CONTROL == 0
NEURAX_REG_STATUS == 4
NEURAX_REG_CONV_CONFIG == 8
NEURAX_REG_POOL_CONFIG == 12
NEURAX_REG_ACT_CONFIG == 16
NEURAX_REG_DIM_CONFIG == 20

CTRL_START == 1
CTRL_RESET == 2
CTRL_CONV_EN == 4
CTRL_POOL_EN == 8
CTRL_ACT_EN == 16
CTRL_DATA_WIDTH == 32

STAT_BUSY == 1
STAT_DONE == 2
STAT_ERROR == 4

NEURAX_DEFAULT_TIMEOUT_MS == 5000

(***************************************************************************)
(* Units of the model                                                      *)
(***************************************************************************)
\* The unit of the modelled float values: v stands for v/FRAC (quarters).
FRAC == 2 * 2

(***************************************************************************)
(* 32-bit unsigned arithmetic on <<hi, lo>> pairs of 16-bit halves         *)
(***************************************************************************)
B16 == 256 * 256

\* The pair of a natural below 2^31.
W(n) == <<n \div B16, n % B16>>

\* Whether the pair stands for the natural n (n below 2^31).
WIs(a, n) == a = W(n)

U32Add(a, b) ==
    LET s == a[2] + b[2]
    IN  <<(a[1] + b[1] + s \div B16) % B16, s % B16>>

\* a - b modulo 2^32 (the borrow leaves the high half).
U32Sub(a, b) ==
    LET d == a[2] - b[2]
    IN  <<(a[1] - b[1] - (IF d < 0 THEN 1 ELSE 0)) % B16, d % B16>>

\* a * k modulo 2^32, for a multiplier k below 2^15.
U32MulSmall(a, k) ==
    LET p == a[2] * k
    IN  <<(a[1] * k + p \div B16) % B16, p % B16>>

\* a / k (unsigned division), for a divisor 0 < k below 2^15.
U32DivSmall(a, k) ==
    LET r == a[1] % k
    IN  <<a[1] \div k, (r * B16 + a[2]) \div k>>

U32Less(a, b) == a[1] < b[1] \/ (a[1] = b[1] /\ a[2] < b[2])

\* a / b by repeated subtraction, for a divisor so large that the quotient
\* is small.
RECURSIVE U32DivLarge(_, _)
U32DivLarge(a, b) ==
    IF U32Less(a, b) THEN <<0, 0>>
    ELSE U32Add(<<0, 1>>, U32DivLarge(U32Sub(a, b), b))

\* a / k (unsigned division) for a divisor 0 < k below 2^31.
U32Div(a, k) ==
    IF k < B16 \div 2 THEN U32DivSmall(a, k) ELSE U32DivLarge(a, W(k))

(***************************************************************************)
(* neurax_private.h: element size                                          *)
(***************************************************************************)
neurax_get_element_size(type) ==
    CASE type \in {NEURAX_DATA_UINT8, NEURAX_DATA_INT8} -> 1
      [] type \in {NEURAX_DATA_UINT16, NEURAX_DATA_INT16} -> 2
      [] type = NEURAX_DATA_FLOAT32 -> 4
      [] OTHER -> 0

(***************************************************************************)
(* Element conversion: C's fmin, fmax and the cast to an integer type      *)
(***************************************************************************)
fmin(a, b) == IF a < b THEN a ELSE b

fmax(a, b) == IF a > b THEN a ELSE b

\* (T)x for a float x already inside T's range: the fraction is discarded
\* (conversion toward zero, C11 6.3.1.4).
CastToInt(v) == IF v >= 0 THEN v \div FRAC ELSE -((-v) \div FRAC)

\* (float)data[index]: the stored element promoted to float.
LoadElement(type, raw) ==
    CASE type = NEURAX_DATA_FLOAT32 -> raw
      [] type \in DataTypes \ {NEURAX_DATA_FLOAT32} -> raw * FRAC
      [] OTHER -> 0

\* a * b modulo 2^32: b is taken a byte at a time.
U32Mul(a, b) ==
    LET sh8(x) == U32MulSmall(x, 256)
        l0 == b[2] % 256
        l1 == b[2] \div 256
        h0 == b[1] % 256
        h1 == b[1] \div 256
    IN  U32Add(U32Add(U32MulSmall(a, l0), sh8(U32MulSmall(a, l1))),
               U32Add(sh8(sh8(U32MulSmall(a, h0))),
                      sh8(sh8(sh8(U32MulSmall(a, h1))))))

\* A size_t product a * k of a 32-bit value and a small k: 64-bit, no wrap
\* (the high half is left unreduced).
SizeMulSmall(a, k) ==
    LET p == a[2] * k
    IN  <<a[1] * k + p \div B16, p % B16>>

(***************************************************************************)
(* Stores: the switch of neurax_set_tensor_value, of                       *)
(* neurax_set_tensor_element and of neurax_convert_data_type.  Each gives  *)
(* the element stored for a float value; a type outside the switch stores  *)
(* nothing (the old element stays).                                        *)
(***************************************************************************)

\* A store that rounds to the nearest integer (halves away from zero)
\* instead of discarding the fraction.
set_tensor_value_store_rounding(type, value, old) ==
    LET round(v) == IF v >= 0 THEN (v + FRAC \div 2) \div FRAC
                    ELSE -((-v + FRAC \div 2) \div FRAC)
    IN  CASE type = NEURAX_DATA_UINT8 -> round(fmax(0, fmin(255 * FRAC, value)))
          [] type = NEURAX_DATA_INT8 -> round(fmax(-128 * FRAC, fmin(127 * FRAC, value)))
          [] type = NEURAX_DATA_UINT16 -> round(fmax(0, fmin(65535 * FRAC, value)))
          [] type = NEURAX_DATA_INT16 -> round(fmax(-32768 * FRAC, fmin(32767 * FRAC, value)))
          [] type = NEURAX_DATA_FLOAT32 -> value
          [] OTHER -> old

set_tensor_value_store(type, value, old) ==
    CASE type = NEURAX_DATA_UINT8 -> CastToInt(fmax(0, fmin(255 * FRAC, value)))
      [] type = NEURAX_DATA_INT8 -> CastToInt(fmax(-128 * FRAC, fmin(127 * FRAC, value)))
      [] type = NEURAX_DATA_UINT16 -> CastToInt(fmax(0, fmin(65535 * FRAC, value)))
      [] type = NEURAX_DATA_INT16 -> CastToInt(fmax(-32768 * FRAC, fmin(32767 * FRAC, value)))
      [] type = NEURAX_DATA_FLOAT32 -> value
      [] OTHER -> old

set_tensor_element_store(type, value, old) ==
    CASE type = NEURAX_DATA_UINT8 -> CastToInt(fmax(0, fmin(255 * FRAC, value)))
      [] type = NEURAX_DATA_INT8 -> CastToInt(fmax(-128 * FRAC, fmin(127 * FRAC, value)))
      [] type = NEURAX_DATA_UINT16 -> CastToInt(fmax(0, fmin(65535 * FRAC, value)))
      [] type = NEURAX_DATA_INT16 -> CastToInt(fmax(-32768 * FRAC, fmin(32767 * FRAC, value)))
      [] type = NEURAX_DATA_FLOAT32 -> value
      [] OTHER -> old

\* neurax_convert_data_type, one element: src_type = dst_type is a byte copy,
\* otherwise the element is read as a float and stored through the switch.
convert_element(src_type, raw, dst_type, old) ==
    IF src_type = dst_type
    THEN raw
    ELSE LET temp_value == LoadElement(src_type, raw)
         IN  CASE dst_type = NEURAX_DATA_UINT8 ->
                      CastToInt(fmax(0, fmin(255 * FRAC, temp_value)))
               [] dst_type = NEURAX_DATA_INT8 ->
                      CastToInt(fmax(-128 * FRAC, fmin(127 * FRAC, temp_value)))
               [] dst_type = NEURAX_DATA_UINT16 ->
                      CastToInt(fmax(0, fmin(65535 * FRAC, temp_value)))
               [] dst_type = NEURAX_DATA_INT16 ->
                      CastToInt(fmax(-32768 * FRAC, fmin(32767 * FRAC, temp_value)))
               [] dst_type = NEURAX_DATA_FLOAT32 -> temp_value
               [] OTHER -> old

(***************************************************************************)
(* Tensors.  A neurax_tensor_t* is a record: null says the pointer itself  *)
(* is NULL, has_data that data is non-NULL; data holds the elements of the *)
(* storage (one entry per element, in the tensor's own type: an integer    *)
(* for the integer types, a count of 1/FRAC for float32).  A tensor too    *)
(* large to enumerate has tracked = FALSE and an empty data.               *)
(***************************************************************************)
Tensor(w, h, c, b, type, elems) ==
    [null |-> FALSE, has_data |-> TRUE, tracked |-> TRUE,
     width |-> w, height |-> h, channels |-> c, batch_size |-> b,
     data_type |-> type,
     data_size |-> Len(elems) * neurax_get_element_size(type),
     data |-> elems]

NullTensor ==
    [null |-> TRUE, has_data |-> FALSE, tracked |-> TRUE,
     width |-> 0, height |-> 0, channels |-> 0, batch_size |-> 0,
     data_type |-> NEURAX_DATA_UINT8, data_size |-> 0, data |-> <<>>]

\* neurax_tensor_total_elements (uint32 product).
neurax_tensor_total_elements(tensor) ==
    IF tensor.null
    THEN W(0)
    ELSE U32Mul(U32Mul(U32Mul(W(tensor.width), W(tensor.height)),
                       W(tensor.channels)), W(tensor.batch_size))

(***************************************************************************)
(* neurax_utils.c: validation                                              *)
(***************************************************************************)
neurax_validate_tensor(tensor) ==
    IF tensor.null THEN NEURAX_ERROR_INVALID_PARAM
    ELSE IF ~tensor.has_data THEN NEURAX_ERROR_INVALID_PARAM
    ELSE IF tensor.width = 0 \/ tensor.height = 0
            \/ tensor.channels = 0 \/ tensor.batch_size = 0
         THEN NEURAX_ERROR_INVALID_PARAM
    ELSE LET expected_size ==
                 SizeMulSmall(neurax_tensor_total_elements(tensor),
                              neurax_get_element_size(tensor.data_type))
         IN  IF W(tensor.data_size) # expected_size
             THEN NEURAX_ERROR_INVALID_PARAM
             ELSE NEURAX_SUCCESS

\* A validation without the ceiling on the stride.
neurax_validate_conv_config_nostride(config) ==
    IF config.null THEN NEURAX_ERROR_INVALID_PARAM
    ELSE IF config.kernel_width = 0 \/ config.kernel_height = 0
         THEN NEURAX_ERROR_INVALID_PARAM
    ELSE IF config.kernel_width > 11 \/ config.kernel_height > 11
         THEN NEURAX_ERROR_INVALID_PARAM
    ELSE IF config.stride_x = 0 \/ config.stride_y = 0
         THEN NEURAX_ERROR_INVALID_PARAM
    ELSE IF config.input_channels = 0 \/ config.output_channels = 0
         THEN NEURAX_ERROR_INVALID_PARAM
    ELSE IF config.activation > NEURAX_ACTIVATION_LINEAR
         THEN NEURAX_ERROR_INVALID_PARAM
    ELSE NEURAX_SUCCESS

neurax_validate_conv_config(config) ==
    IF config.null THEN NEURAX_ERROR_INVALID_PARAM
    ELSE IF config.kernel_width = 0 \/ config.kernel_height = 0
         THEN NEURAX_ERROR_INVALID_PARAM
    ELSE IF config.kernel_width > 11 \/ config.kernel_height > 11
         THEN NEURAX_ERROR_INVALID_PARAM
    ELSE IF config.stride_x = 0 \/ config.stride_y = 0
         THEN NEURAX_ERROR_INVALID_PARAM
    ELSE IF config.stride_x > 8 \/ config.stride_y > 8
         THEN NEURAX_ERROR_INVALID_PARAM
    ELSE IF config.input_channels = 0 \/ config.output_channels = 0
         THEN NEURAX_ERROR_INVALID_PARAM
    ELSE IF config.activation > NEURAX_ACTIVATION_LINEAR
         THEN NEURAX_ERROR_INVALID_PARAM
    ELSE NEURAX_SUCCESS

\* A validation that looks at the width of the window only.
neurax_validate_pool_config_width(config) ==
    IF config.null THEN NEURAX_ERROR_INVALID_PARAM
    ELSE IF config.pool_width = 0 \/ config.pool_width > 8
         THEN NEURAX_ERROR_INVALID_PARAM
    ELSE IF config.stride_x = 0 \/ config.stride_y = 0
         THEN NEURAX_ERROR_INVALID_PARAM
    ELSE IF config.pool_type > NEURAX_POOL_AVERAGE
         THEN NEURAX_ERROR_INVALID_PARAM
    ELSE NEURAX_SUCCESS

neurax_validate_pool_config(config) ==
    IF config.null THEN NEURAX_ERROR_INVALID_PARAM
    ELSE IF config.pool_width = 0 \/ config.pool_height = 0
         THEN NEURAX_ERROR_INVALID_PARAM
    ELSE IF config.pool_width > 8 \/ config.pool_height > 8
         THEN NEURAX_ERROR_INVALID_PARAM
    ELSE IF config.stride_x = 0 \/ config.stride_y = 0
         THEN NEURAX_ERROR_INVALID_PARAM
    ELSE IF config.pool_type > NEURAX_POOL_AVERAGE
         THEN NEURAX_ERROR_INVALID_PARAM
    ELSE NEURAX_SUCCESS

(***************************************************************************)
(* neurax_conv2d.c: element access and the activation function             *)
(***************************************************************************)
\* The natural a pair stands for (pairs below 2^31 only).
ToNat(a) == a[1] * B16 + a[2]

\* The product of two modelled floats.  The model draws weights that are
\* whole numbers, for which the product is exact.
FloatMul(a, b) == (a * b) \div FRAC

\* tanhf and expf have no exact value in the model's arithmetic: the model
\* draws no call that evaluates them.
tanhf(value) == CHOOSE r \in {} : TRUE

sigmoidf(value) == CHOOSE r \in {} : TRUE

\* A dispatch that gives 0 for a selector it does not know.
neurax_apply_activation_strict(value, activation) ==
    CASE activation = NEURAX_ACTIVATION_RELU -> fmax(0, value)
      [] activation = NEURAX_ACTIVATION_LINEAR -> value
      [] OTHER -> 0

neurax_apply_activation(value, activation) ==
    CASE activation = NEURAX_ACTIVATION_RELU -> fmax(0, value)
      [] activation = NEURAX_ACTIVATION_TANH -> tanhf(value)
      [] activation = NEURAX_ACTIVATION_SIGMOID -> sigmoidf(value)
      [] OTHER -> value

\* The element index of [batch, y, x, c] (the operands the model draws are
\* far below 2^32: the uint32 expression does not wrap).
TensorIndex(tensor, batch, y, x, c) ==
    ((batch * tensor.height + y) * tensor.width + x) * tensor.channels + c

\* A read past the storage returns whatever lies there: junk.
neurax_get_tensor_element(tensor, index, junk) ==
    IF tensor.data_type \notin DataTypes THEN 0
    ELSE IF index < Len(tensor.data)
         THEN LoadElement(tensor.data_type, tensor.data[index + 1])
         ELSE junk

neurax_get_tensor_value(tensor, batch, y, x, c, junk) ==
    LET index == TensorIndex(tensor, batch, y, x, c)
    IN  IF tensor.data_type \notin DataTypes THEN 0
        ELSE IF index < Len(tensor.data)
             THEN LoadElement(tensor.data_type, tensor.data[index + 1])
             ELSE junk

neurax_get_weight_value(weights, out_ch, in_ch, ky, kx, junk) ==
    LET index == ((out_ch * weights.channels + in_ch) * weights.height + ky)
                     * weights.width + kx
    IN  IF weights.data_type \notin DataTypes THEN 0
        ELSE IF index < Len(weights.data)
             THEN LoadElement(weights.data_type, weights.data[index + 1])
             ELSE junk

neurax_get_bias_value(bias, channel, junk) ==
    IF bias.data_type \notin DataTypes THEN 0
    ELSE IF channel < Len(bias.data)
         THEN LoadElement(bias.data_type, bias.data[channel + 1])
         ELSE junk

\* The tensor after data[index] = (T)clamp(value); a store past the storage
\* leaves the tensor's own elements as they are.
neurax_set_tensor_value(tensor, batch, y, x, c, value) ==
    LET index == TensorIndex(tensor, batch, y, x, c)
    IN  IF index < Len(tensor.data)
        THEN [tensor EXCEPT !.data[index + 1] =
                  set_tensor_value_store(tensor.data_type, value, @)]
        ELSE tensor

neurax_set_tensor_element(tensor, index, value) ==
    IF index < Len(tensor.data)
    THEN [tensor EXCEPT !.data[index + 1] =
              set_tensor_element_store(tensor.data_type, value, @)]
    ELSE tensor

\* memset(output->data, 0, output->data_size)
ClearTensor(tensor) ==
    [tensor EXCEPT !.data = [i \in 1..Len(tensor.data) |-> 0]]

(***************************************************************************)
(* neurax_conv2d.c: neurax_cpu_conv2d                                      *)
(***************************************************************************)

conv_out_height(input, config) ==
    U32Add(U32DivSmall(U32Sub(U32Add(W(input.height),
                                     U32MulSmall(W(config.padding_y), 2)),
                              W(config.kernel_height)),
                       config.stride_y),
           W(1))

conv_out_width(input, config) ==
    U32Add(U32DivSmall(U32Sub(U32Add(W(input.width),
                                     U32MulSmall(W(config.padding_x), 2)),
                              W(config.kernel_width)),
                       config.stride_x),
           W(1))

\* The accumulator of one output position: taps n, n+1, ... in the order of
\* the loops over in_ch, ky, kx.
RECURSIVE ConvAccumulate(_, _, _, _, _, _, _, _, _)
ConvAccumulate(input, weights, config, batch, out_ch, out_y, out_x, junk, n) ==
    LET kh == config.kernel_height
        kw == config.kernel_width
        in_ch == n \div (kh * kw)
        ky == (n \div kw) % kh
        kx == n % kw
        in_y == out_y * config.stride_y + ky - config.padding_y
        in_x == out_x * config.stride_x + kx - config.padding_x
        term ==
            IF in_y >= 0 /\ in_y < input.height /\ in_x >= 0 /\ in_x < input.width
            THEN FloatMul(
                     neurax_get_tensor_value(input, batch, in_y, in_x, in_ch, junk),
                     neurax_get_weight_value(weights, out_ch, in_ch, ky, kx, junk))
            ELSE 0
    IN  IF n >= config.input_channels * kh * kw
        THEN 0
        ELSE term + ConvAccumulate(input, weights, config, batch, out_ch,
                                   out_y, out_x, junk, n + 1)

\* The value stored at one output position.
ConvResult(input, weights, bias, config, batch, out_ch, out_y, out_x, junk) ==
    LET accumulator ==
            ConvAccumulate(input, weights, config, batch, out_ch, out_y, out_x,
                           junk, 0)
            + (IF config.use_bias /\ ~bias.null
               THEN neurax_get_bias_value(bias, out_ch, junk)
               ELSE 0)
    IN  neurax_apply_activation(accumulator, config.activation)

\* The loops over batch, out_ch, out_y, out_x from position n on.
RECURSIVE ConvLoop(_, _, _, _, _, _, _)
ConvLoop(input, weights, bias, config, output, junk, n) ==
    LET ow == output.width
        oh == output.height
        oc == config.output_channels
        out_x == n % ow
        out_y == (n \div ow) % oh
        out_ch == (n \div (ow * oh)) % oc
        batch == n \div (ow * oh * oc)
    IN  IF n >= input.batch_size * oc * oh * ow
        THEN output
        ELSE ConvLoop(input, weights, bias, config,
                 neurax_set_tensor_value(output, batch, out_y, out_x, out_ch,
                     ConvResult(input, weights, bias, config, batch, out_ch,
                                out_y, out_x, junk)),
                 junk, n + 1)

\* The return code, and the output tensor after the call.  The elements of
\* an output too large to enumerate are not followed.
neurax_cpu_conv2d(input, weights, bias, config, output, junk) ==
    IF W(output.height) # conv_out_height(input, config)
       \/ W(output.width) # conv_out_width(input, config)
    THEN [ret |-> NEURAX_ERROR_INVALID_PARAM, output |-> output, written |-> FALSE]
    ELSE [ret |-> NEURAX_SUCCESS,
          output |-> IF output.tracked
                     THEN ConvLoop(input, weights, bias, config,
                                   ClearTensor(output), junk, 0)
                     ELSE output,
          written |-> TRUE]

(***************************************************************************)
(* neurax_layers.c: neurax_cpu_activation and neurax_cpu_pooling           *)
(***************************************************************************)
RECURSIVE ActivationLoop(_, _, _, _, _, _)
ActivationLoop(input, activation, output, junk, total_elements, i) ==
    IF i >= total_elements
    THEN output
    ELSE ActivationLoop(input, activation,
             neurax_set_tensor_element(output, i,
                 neurax_apply_activation(
                     neurax_get_tensor_element(input, i, junk), activation)),
             junk, total_elements, i + 1)

neurax_cpu_activation(input, activation, output, junk) ==
    [ret |-> NEURAX_SUCCESS,
     output |-> IF output.tracked
                THEN ActivationLoop(input, activation, output, junk,
                         ToNat(neurax_tensor_total_elements(input)), 0)
                ELSE output,
     written |-> TRUE]

pool_out_height(input, config) ==
    U32Add(U32Div(U32Sub(W(input.height), W(config.pool_height)),
                  config.stride_y),
           W(1))

pool_out_width(input, config) ==
    U32Add(U32Div(U32Sub(W(input.width), W(config.pool_width)),
                  config.stride_x),
           W(1))

\* -FLT_MAX: below every value the model draws.
MinusFltMax == -(B16 * (B16 \div 4))

\* The window scan from tap n on: <<pool_result, valid_count>> after the
\* loops over py, px.
RECURSIVE PoolScan(_, _, _, _, _, _, _, _, _)
PoolScan(input, config, batch, ch, out_y, out_x, junk, n, acc) ==
    LET py == n \div config.pool_width
        px == n % config.pool_width
        in_y == U32Add(U32Mul(W(out_y), W(config.stride_y)), W(py))
        in_x == U32Add(U32Mul(W(out_x), W(config.stride_x)), W(px))
        value == neurax_get_tensor_value(input, batch, ToNat(in_y), ToNat(in_x),
                                         ch, junk)
        next ==
            IF U32Less(in_y, W(input.height)) /\ U32Less(in_x, W(input.width))
            THEN IF config.pool_type = NEURAX_POOL_MAX
                 THEN <<IF value > acc[1] \/ acc[2] = 0 THEN value ELSE acc[1],
                        acc[2] + 1>>
                 ELSE <<acc[1] + value, acc[2] + 1>>
            ELSE acc
    IN  IF n >= config.pool_height * config.pool_width
        THEN acc
        ELSE PoolScan(input, config, batch, ch, out_y, out_x, junk, n + 1, next)

\* A kernel that divides the sum by the nominal area of the window.
PoolResult_area(input, config, batch, ch, out_y, out_x, junk) ==
    LET start == IF config.pool_type = NEURAX_POOL_MAX THEN MinusFltMax ELSE 0
        acc == PoolScan(input, config, batch, ch, out_y, out_x, junk, 0,
                        <<start, 0>>)
    IN  IF config.pool_type = NEURAX_POOL_AVERAGE
        THEN acc[1] \div (config.pool_width * config.pool_height)
        ELSE acc[1]

\* pool_result /= valid_count.  The model draws whole-number inputs and
\* windows of 1, 2 or 4 taps, for which the quotient is exact.
PoolResult(input, config, batch, ch, out_y, out_x, junk) ==
    LET start == IF config.pool_type = NEURAX_POOL_MAX THEN MinusFltMax ELSE 0
        acc == PoolScan(input, config, batch, ch, out_y, out_x, junk, 0,
                        <<start, 0>>)
    IN  IF config.pool_type = NEURAX_POOL_AVERAGE /\ acc[2] > 0
        THEN acc[1] \div acc[2]
        ELSE acc[1]

\* The loops over batch, ch, out_y, out_x from position n on.
RECURSIVE PoolLoop(_, _, _, _, _)
PoolLoop(input, config, output, junk, n) ==
    LET ow == output.width
        oh == output.height
        nc == input.channels
        out_x == n % ow
        out_y == (n \div ow) % oh
        ch == (n \div (ow * oh)) % nc
        batch == n \div (ow * oh * nc)
    IN  IF n >= input.batch_size * nc * oh * ow
        THEN output
        ELSE PoolLoop(input, config,
                 neurax_set_tensor_value(output, batch, out_y, out_x, ch,
                     PoolResult(input, config, batch, ch, out_y, out_x, junk)),
                 junk, n + 1)

neurax_cpu_pooling(input, config, output, junk) ==
    IF W(output.height) # pool_out_height(input, config)
       \/ W(output.width) # pool_out_width(input, config)
    THEN [ret |-> NEURAX_ERROR_INVALID_PARAM, output |-> output, written |-> FALSE]
    ELSE [ret |-> NEURAX_SUCCESS,
          output |-> IF output.tracked
                     THEN PoolLoop(input, config, ClearTensor(output), junk, 0)
                     ELSE output,
          written |-> TRUE]

(***************************************************************************)
(* The device: neurax_private.h's struct neurax_device, the operating      *)
(* system's side of it (the descriptor and the mapping), and the register  *)
(* window.                                                                 *)
(***************************************************************************)
\* Model-only outcomes of a call: still inside the call, and killed by a
\* fault (an access to unmapped or released memory that the build traps).
PENDING == NEURAX_ERROR_BUFFER_OVERFLOW - 1

FAULT == NEURAX_ERROR_BUFFER_OVERFLOW - 2

Registers ==
    {NEURAX_REG_CONTROL, NEURAX_REG_CONV_CONFIG, NEURAX_REG_POOL_CONFIG,
     NEURAX_REG_ACT_CONFIG, NEURAX_REG_DIM_CONFIG}

\* calloc(1, sizeof(neurax_device_t)) and the assignments of neurax_init
\* before the open.
NewDevice(use_hardware) ==
    [use_hardware |-> use_hardware, initialized |-> FALSE, device_fd |-> -1,
     mapped_memory |-> "NULL", register_base |-> "NULL",
     hardware_available |-> FALSE]

\* The bus: the register window's contents, whether the window is mapped,
\* the register accesses of the call so far, and whether an access faulted.
\* neurax_write_reg and neurax_read_reg touch the window only when
\* hardware_available and register_base are set.
neurax_write_reg(device, bus, offset, value) ==
    IF device.hardware_available /\ device.register_base # "NULL"
    THEN IF bus.mapped /\ ~bus.fault
         THEN [bus EXCEPT !.regs[offset] = value,
                          !.traffic = Append(@, <<"W", offset, value>>)]
         ELSE [bus EXCEPT !.fault = TRUE]
    ELSE bus

\* The bus after a read of offset that finds value there.
neurax_read_reg(device, bus, offset, value) ==
    IF device.hardware_available /\ device.register_base # "NULL"
    THEN IF bus.mapped /\ ~bus.fault
         THEN [bus EXCEPT !.traffic = Append(@, <<"R", offset, value>>)]
         ELSE [bus EXCEPT !.fault = TRUE]
    ELSE bus

\* An open that reports absent hardware to its caller.
neurax_device_open_strict(device, open1, open2, mmap_ok) ==
    [ret |-> IF (open1 \/ open2) /\ mmap_ok
             THEN NEURAX_SUCCESS
             ELSE NEURAX_ERROR_DEVICE_NOT_FOUND,
     device |-> [device EXCEPT !.hardware_available = (open1 \/ open2) /\ mmap_ok],
     fd_open |-> (open1 \/ open2) /\ mmap_ok,
     mapped |-> (open1 \/ open2) /\ mmap_ok, opens |-> 0, closes |-> 0]


\* An open that closes the descriptor when the mapping fails and leaves
\* its number in device_fd.
neurax_device_open_keepfd(device, open1, open2, mmap_ok) ==
    IF ~open1 /\ ~open2
    THEN [ret |-> NEURAX_SUCCESS,
          device |-> [device EXCEPT !.device_fd = -1,
                                    !.hardware_available = FALSE],
          fd_open |-> FALSE, mapped |-> FALSE, opens |-> 0, closes |-> 0]
    ELSE IF ~mmap_ok
         THEN [ret |-> NEURAX_SUCCESS,
               device |-> [device EXCEPT !.device_fd = 3,
                                         !.mapped_memory = "MAP_FAILED",
                                         !.hardware_available = FALSE],
               fd_open |-> FALSE, mapped |-> FALSE, opens |-> 1, closes |-> 1]
         ELSE [ret |-> NEURAX_SUCCESS,
               device |-> [device EXCEPT !.device_fd = 3,
                                         !.mapped_memory = "MAPPED",
                                         !.register_base = "WINDOW",
                                         !.hardware_available = TRUE],
               fd_open |-> TRUE, mapped |-> TRUE, opens |-> 1, closes |-> 0]

\* neurax_device_open: open1 and open2 say whether /dev/neurax0 and
\* /dev/uio0 open, mmap_ok whether the mapping succeeds.
neurax_device_open(device, open1, open2, mmap_ok) ==
    IF ~open1 /\ ~open2
    THEN [ret |-> NEURAX_SUCCESS,
          device |-> [device EXCEPT !.device_fd = -1,
                                    !.hardware_available = FALSE],
          fd_open |-> FALSE, mapped |-> FALSE, opens |-> 0, closes |-> 0]
    ELSE IF ~mmap_ok
         THEN [ret |-> NEURAX_SUCCESS,
               device |-> [device EXCEPT !.device_fd = -1,
                                         !.mapped_memory = "MAP_FAILED",
                                         !.hardware_available = FALSE],
               fd_open |-> FALSE, mapped |-> FALSE, opens |-> 1, closes |-> 1]
         ELSE [ret |-> NEURAX_SUCCESS,
               device |-> [device EXCEPT !.device_fd = 3,
                                         !.mapped_memory = "MAPPED",
                                         !.register_base = "WINDOW",
                                         !.hardware_available = TRUE],
               fd_open |-> TRUE, mapped |-> TRUE, opens |-> 1, closes |-> 0]

\* neurax_device_close
neurax_device_close(device) ==
    [device |-> [device EXCEPT
                     !.mapped_memory =
                         IF @ \notin {"NULL", "MAP_FAILED"} THEN "NULL" ELSE @,
                     !.device_fd = -1,
                     !.hardware_available = FALSE],
     unmaps |-> IF device.mapped_memory \notin {"NULL", "MAP_FAILED"} THEN 1 ELSE 0,
     closes |-> IF device.device_fd >= 0 THEN 1 ELSE 0]

(***************************************************************************)
(* Register encodings of the hardware paths                                *)
(***************************************************************************)
BoolBit(b) == IF b THEN 1 ELSE 0

\* neurax_conv_config_reg_t: each bit-field keeps the low bits of the value
\* assigned to it.
ConvConfigReg(config) ==
    ((config.kernel_width - 1) % 16)
    + ((config.stride_x - 1) % 8) * 16
    + (config.padding_x % 4) * 128
    + BoolBit(config.use_bias) * 512
    + ((config.input_channels - 1) % 8) * 1024

\* neurax_dim_config_reg_t / (width & 0xFFFF) | ((height & 0xFFFF) << 16);
\* the heights the model draws for a hardware call are below 2^15.
DimConfigReg(input) == (input.width % B16) + (input.height % B16) * B16

PoolConfigReg(config) ==
    (config.pool_type % 2)
    + ((config.pool_width - 2) % 8) * 2
    + ((config.stride_x - 1) % 8) * 16

ActConfigReg(activation) == activation % 4

DataWidthBit(input) ==
    IF input.data_type \in {NEURAX_DATA_UINT16, NEURAX_DATA_INT16}
    THEN CTRL_DATA_WIDTH
    ELSE 0

\* The control word neurax_hw_conv2d writes (bit-fields data_width, conv_en,
\* act_en of a word that starts at 0).
ConvControlReg(input, config) ==
    DataWidthBit(input) + CTRL_CONV_EN
    + (IF config.activation # NEURAX_ACTIVATION_LINEAR THEN CTRL_ACT_EN ELSE 0)

\* A pooling control word without the start bit.
PoolControlReg_nostart(input) == CTRL_POOL_EN + DataWidthBit(input)

PoolControlReg(input) == CTRL_POOL_EN + DataWidthBit(input) + CTRL_START

ActControlReg(input) == CTRL_ACT_EN + DataWidthBit(input) + CTRL_START

\* The bus after the register writes of neurax_hw_conv2d, neurax_hw_pooling
\* and neurax_hw_activation, in the order of the code.
HwConvProgram(device, bus, input, config) ==
    neurax_write_reg(device,
        neurax_write_reg(device,
            neurax_write_reg(device,
                neurax_write_reg(device, bus, NEURAX_REG_CONV_CONFIG,
                                 ConvConfigReg(config)),
                NEURAX_REG_DIM_CONFIG, DimConfigReg(input)),
            NEURAX_REG_ACT_CONFIG, ActConfigReg(config.activation)),
        NEURAX_REG_CONTROL, ConvControlReg(input, config))

HwPoolProgram(device, bus, input, config) ==
    neurax_write_reg(device,
        neurax_write_reg(device,
            neurax_write_reg(device, bus, NEURAX_REG_POOL_CONFIG,
                             PoolConfigReg(config)),
            NEURAX_REG_DIM_CONFIG, DimConfigReg(input)),
        NEURAX_REG_CONTROL, PoolControlReg(input))

HwActProgram(device, bus, input, activation) ==
    neurax_write_reg(device,
        neurax_write_reg(device, bus, NEURAX_REG_ACT_CONFIG,
                         ActConfigReg(activation)),
        NEURAX_REG_CONTROL, ActControlReg(input))

(***************************************************************************)
(* The three operations, from their entry to the choice of implementation  *)
(***************************************************************************)
\* The code neurax_conv2d returns before it chooses an implementation, or
\* PENDING when it reaches the choice.
ConvEntry(device_null, device, input, weights, bias, config, output) ==
    IF device_null \/ input.null \/ weights.null \/ config.null \/ output.null
    THEN NEURAX_ERROR_INVALID_PARAM
    ELSE IF ~device.initialized THEN NEURAX_ERROR_NOT_INITIALIZED
    ELSE IF neurax_validate_tensor(input) # NEURAX_SUCCESS
         THEN neurax_validate_tensor(input)
    ELSE IF neurax_validate_tensor(weights) # NEURAX_SUCCESS
         THEN neurax_validate_tensor(weights)
    ELSE IF neurax_validate_tensor(output) # NEURAX_SUCCESS
         THEN neurax_validate_tensor(output)
    ELSE IF neurax_validate_conv_config(config) # NEURAX_SUCCESS
         THEN neurax_validate_conv_config(config)
    ELSE IF ~bias.null /\ config.use_bias
            /\ neurax_validate_tensor(bias) # NEURAX_SUCCESS
         THEN neurax_validate_tensor(bias)
    ELSE PENDING

\* The marker the trace of a call carries where a CPU kernel is entered.
CpuMark == <<"CPU", 0, 0>>

EnterCpu(bus) == [bus EXCEPT !.traffic = Append(@, CpuMark)]

\* neurax_hw_conv2d: the four register writes, then the CPU kernel.  A
\* faulting register write ends the process.
neurax_hw_conv2d(device, bus, input, weights, bias, config, output, junk) ==
    LET programmed == HwConvProgram(device, bus, input, config)
        r == neurax_cpu_conv2d(input, weights, bias, config, output, junk)
    IN  IF programmed.fault
        THEN [ret |-> FAULT, output |-> output, bus |-> programmed]
        ELSE [ret |-> r.ret, output |-> r.output, bus |-> EnterCpu(programmed)]

neurax_conv2d(device_null, device, bus, input, weights, bias, config, output, junk) ==
    LET e == ConvEntry(device_null, device, input, weights, bias, config, output)
    IN  IF e # PENDING
        THEN [ret |-> e, output |-> output, bus |-> bus]
        ELSE IF device.hardware_available /\ device.use_hardware
        THEN neurax_hw_conv2d(device, bus, input, weights, bias, config,
                              output, junk)
        ELSE LET r == neurax_cpu_conv2d(input, weights, bias, config, output, junk)
             IN  [ret |-> r.ret, output |-> r.output, bus |-> EnterCpu(bus)]

PoolEntry(device_null, device, input, config, output) ==
    IF device_null \/ input.null \/ config.null \/ output.null
    THEN NEURAX_ERROR_INVALID_PARAM
    ELSE IF ~device.initialized THEN NEURAX_ERROR_NOT_INITIALIZED
    ELSE IF neurax_validate_tensor(input) # NEURAX_SUCCESS
         THEN neurax_validate_tensor(input)
    ELSE IF neurax_validate_tensor(output) # NEURAX_SUCCESS
         THEN neurax_validate_tensor(output)
    ELSE IF neurax_validate_pool_config(config) # NEURAX_SUCCESS
         THEN neurax_validate_pool_config(config)
    ELSE PENDING

\* A dispatch that takes the hardware path on the use_hardware flag alone.
neurax_pooling_flagonly(device_null, device, bus, input, config, output, junk) ==
    LET e == PoolEntry(device_null, device, input, config, output)
    IN  IF e # PENDING
        THEN [ret |-> e, output |-> output, bus |-> bus]
        ELSE IF device.use_hardware
        THEN LET programmed == HwPoolProgram(device, bus, input, config)
             IN  [ret |-> IF programmed.fault THEN FAULT ELSE PENDING,
                  output |-> output, bus |-> programmed]
        ELSE LET r == neurax_cpu_pooling(input, config, output, junk)
             IN  [ret |-> r.ret, output |-> r.output, bus |-> EnterCpu(bus)]

\* neurax_pooling up to its return or, on the hardware path, up to the call
\* of neurax_wait_for_completion (ret = PENDING: the wait loop and what
\* follows it are the steps WaitPoll, WaitQuiet and WaitExpire).
neurax_pooling(device_null, device, bus, input, config, output, junk) ==
    LET e == PoolEntry(device_null, device, input, config, output)
    IN  IF e # PENDING
        THEN [ret |-> e, output |-> output, bus |-> bus]
        ELSE IF device.hardware_available /\ device.use_hardware
        THEN LET programmed == HwPoolProgram(device, bus, input, config)
             IN  [ret |-> IF programmed.fault THEN FAULT ELSE PENDING,
                  output |-> output, bus |-> programmed]
        ELSE LET r == neurax_cpu_pooling(input, config, output, junk)
             IN  [ret |-> r.ret, output |-> r.output, bus |-> EnterCpu(bus)]


\* An entry check that does not look at the initialized flag.
ActEntry_unguarded(device_null, device, input, output) ==
    IF device_null \/ input.null \/ output.null
    THEN NEURAX_ERROR_INVALID_PARAM
    ELSE IF neurax_validate_tensor(input) # NEURAX_SUCCESS
         THEN neurax_validate_tensor(input)
    ELSE IF neurax_validate_tensor(output) # NEURAX_SUCCESS
         THEN neurax_validate_tensor(output)
    ELSE IF input.width # output.width \/ input.height # output.height
            \/ input.channels # output.channels
            \/ input.batch_size # output.batch_size
         THEN NEURAX_ERROR_INVALID_PARAM
    ELSE PENDING

ActEntry(device_null, device, input, output) ==
    IF device_null \/ input.null \/ output.null
    THEN NEURAX_ERROR_INVALID_PARAM
    ELSE IF ~device.initialized THEN NEURAX_ERROR_NOT_INITIALIZED
    ELSE IF neurax_validate_tensor(input) # NEURAX_SUCCESS
         THEN neurax_validate_tensor(input)
    ELSE IF neurax_validate_tensor(output) # NEURAX_SUCCESS
         THEN neurax_validate_tensor(output)
    ELSE IF input.width # output.width \/ input.height # output.height
            \/ input.channels # output.channels
            \/ input.batch_size # output.batch_size
         THEN NEURAX_ERROR_INVALID_PARAM
    ELSE PENDING

neurax_activation(device_null, device, bus, input, activation, output, junk) ==
    LET e == ActEntry(device_null, device, input, output)
    IN  IF e # PENDING
        THEN [ret |-> e, output |-> output, bus |-> bus]
        ELSE IF device.hardware_available /\ device.use_hardware
        THEN LET programmed == HwActProgram(device, bus, input, activation)
             IN  [ret |-> IF programmed.fault THEN FAULT ELSE PENDING,
                  output |-> output, bus |-> programmed]
        ELSE LET r == neurax_cpu_activation(input, activation, output, junk)
             IN  [ret |-> r.ret, output |-> r.output, bus |-> EnterCpu(bus)]

\* A hardware path that logs the error of the wait and runs the CPU kernel
\* all the same.
AfterWait_fallback(op, error, bus, input, pool_config, activation, output, junk) ==
    IF op = "wait"
    THEN [ret |-> error, output |-> output, bus |-> bus]
    ELSE LET r == IF op = "pooling"
                  THEN neurax_cpu_pooling(input, pool_config, output, junk)
                  ELSE neurax_cpu_activation(input, activation, output, junk)
         IN  [ret |-> r.ret, output |-> r.output, bus |-> EnterCpu(bus)]

\* What neurax_hw_pooling and neurax_hw_activation do once
\* neurax_wait_for_completion has returned error.
AfterWait(op, error, bus, input, pool_config, activation, output, junk) ==
    IF op = "wait" \/ error # NEURAX_SUCCESS
    THEN [ret |-> error, output |-> output, bus |-> bus]
    ELSE LET r == IF op = "pooling"
                  THEN neurax_cpu_pooling(input, pool_config, output, junk)
                  ELSE neurax_cpu_activation(input, activation, output, junk)
         IN  [ret |-> r.ret, output |-> r.output, bus |-> EnterCpu(bus)]

(***************************************************************************)
(* The state of a program that uses the library                            *)
(***************************************************************************)
VARIABLES
    handle,   \* the caller's neurax_device_t*: "none" (NULL), "live", "freed"
    dev,      \* the device record the handle points to
    os,       \* the descriptor and the mapping, as the operating system has them
    regs,     \* the contents of the register window
    traffic,  \* the register accesses and resource calls of the current call
    pc,       \* "idle", or "polling" inside neurax_wait_for_completion
    wait,     \* the locals of neurax_wait_for_completion
    call,     \* the arguments and the outcome of the current or last call
    ncalls,   \* the operations called on the device while it was live
    probe     \* the inputs and results of a function applied on its own

vars == <<handle, dev, os, regs, traffic, pc, wait, call, ncalls, probe>>

devVars == <<handle, dev, os, regs, traffic, pc, wait, call, ncalls>>

\* Explicit status reads that find neither done nor error, per wait; the
\* rest of a silent wait is one step (WaitQuiet).
MaxPolls == 2

\* Operations a caller runs on a device between neurax_init and
\* neurax_cleanup.
MaxCalls == 1

StatusValues == 0 .. (STAT_BUSY + STAT_DONE + STAT_ERROR)

HasBit(word, bit) == (word \div bit) % 2 = 1

ConvConfig(kernel, stride, padding, in_ch, out_ch, use_bias, activation) ==
    [null |-> FALSE, kernel_width |-> kernel, kernel_height |-> kernel,
     stride_x |-> stride, stride_y |-> stride,
     padding_x |-> padding, padding_y |-> padding,
     input_channels |-> in_ch, output_channels |-> out_ch,
     use_bias |-> use_bias, activation |-> activation]

NullConvConfig == [ConvConfig(0, 0, 0, 0, 0, FALSE, 0) EXCEPT !.null = TRUE]

PoolConfig(pool, stride, type) ==
    [null |-> FALSE, pool_width |-> pool, pool_height |-> pool,
     stride_x |-> stride, stride_y |-> stride, pool_type |-> type]

NullPoolConfig == [PoolConfig(0, 0, 0) EXCEPT !.null = TRUE]

\* The arguments the callers of the model pass.  Inputs: a 2x2 float32
\* image 1.0, 2.0, -1.0, 3.0, the same as int16, and NULL.  Outputs are
\* pre-filled with 7.0 so that a cleared or written buffer shows.
InputF == Tensor(2, 2, 1, 1, NEURAX_DATA_FLOAT32,
                 <<1 * FRAC, 2 * FRAC, -1 * FRAC, 3 * FRAC>>)

InputS == Tensor(2, 2, 1, 1, NEURAX_DATA_INT16, <<1, 2, -1, 3>>)

Output22 == Tensor(2, 2, 1, 1, NEURAX_DATA_FLOAT32,
                   <<7 * FRAC, 7 * FRAC, 7 * FRAC, 7 * FRAC>>)

Output11 == Tensor(1, 1, 1, 1, NEURAX_DATA_FLOAT32, <<7 * FRAC>>)

WeightsOne == Tensor(1, 1, 1, 1, NEURAX_DATA_FLOAT32, <<1 * FRAC>>)

CallInputs == {InputF, InputS, NullTensor}

CallOutputs == {Output22, Output11, NullTensor}

CallConvConfigs ==
    {ConvConfig(1, 1, 0, 1, 1, FALSE, NEURAX_ACTIVATION_RELU),
     ConvConfig(1, 1, 0, 1, 1, FALSE, NEURAX_ACTIVATION_LINEAR),
     ConvConfig(12, 1, 0, 1, 1, FALSE, NEURAX_ACTIVATION_LINEAR),
     NullConvConfig}

CallPoolConfigs ==
    {PoolConfig(2, 2, NEURAX_POOL_MAX), PoolConfig(2, 2, NEURAX_POOL_AVERAGE),
     PoolConfig(2, 1, NEURAX_POOL_MAX), PoolConfig(0, 1, NEURAX_POOL_MAX),
     NullPoolConfig}

CallActivations == {NEURAX_ACTIVATION_RELU, NEURAX_ACTIVATION_LINEAR}

\* The largest timeout_ms a wait is given: timeout_ms * 1000 still fits in
\* the 32 bits of the loop's budget.
MaxTimeout == 4294967

WaitTimeouts == {0, NEURAX_DEFAULT_TIMEOUT_MS, MaxTimeout}

NoEnv ==
    [config_null |-> FALSE, device_null |-> FALSE, alloc_ok |-> FALSE,
     open1 |-> FALSE, open2 |-> FALSE, mmap_ok |-> FALSE]

NoCall ==
    [op |-> "none", stale |-> FALSE, input |-> NullTensor,
     weights |-> NullTensor, bias |-> NullTensor,
     conv_config |-> NullConvConfig, pool_config |-> NullPoolConfig,
     activation |-> NEURAX_ACTIVATION_LINEAR, timeout_ms |-> 0,
     before |-> NullTensor, output |-> NullTensor,
     regs_before |-> [r \in Registers |-> 0], device_before |-> NewDevice(FALSE),
     ret |-> PENDING, env |-> NoEnv]

NoWait == [budget |-> W(0), elapsed |-> W(0), reads |-> 0]

NoProbe == [kind |-> "none"]

DeviceInit ==
    /\ handle = "none"
    /\ dev = NewDevice(FALSE)
    /\ os = [fd_open |-> FALSE, mapped |-> FALSE]
    /\ regs = [r \in Registers |-> 0]
    /\ traffic = <<>>
    /\ pc = "idle"
    /\ wait = NoWait
    /\ call = NoCall
    /\ ncalls = 0

Init == DeviceInit /\ probe = NoProbe

\* The bus as a call finds it.
Bus == [regs |-> regs, traffic |-> <<>>, mapped |-> os.mapped, fault |-> FALSE]

\* What a freed device record may hold when it is read again: the fields
\* neurax_cleanup left, with the two flags the library branches on
\* arbitrary (the allocator may have reused the memory).
FreedViews ==
    {[dev EXCEPT !.initialized = i, !.hardware_available = h] :
        i \in BOOLEAN, h \in BOOLEAN}

\* The device records a call with the caller's handle may find.
Views == IF handle = "freed" THEN FreedViews ELSE {dev}

\* The arguments of a call: any of pool while the device is live; a caller
\* that goes on after neurax_cleanup passes its usual arguments.
Args(pool, usual) == IF handle = "freed" THEN {usual} ELSE pool

(***************************************************************************)
(* neurax_core.c: the life of a device                                     *)
(***************************************************************************)
Mark(bus, what) == [bus EXCEPT !.traffic = Append(@, <<what, 0, 0>>)]

\* neurax_init(config, &device) by a caller that holds no device.
neurax_init(config_null, device_null, use_hardware, alloc_ok, open1, open2, mmap_ok) ==
    LET env == [config_null |-> config_null, device_null |-> device_null,
                alloc_ok |-> alloc_ok, open1 |-> open1, open2 |-> open2,
                mmap_ok |-> mmap_ok]
        start == [NoCall EXCEPT !.op = "init", !.env = env,
                                !.regs_before = regs, !.device_before = dev]
        opened == neurax_device_open(NewDevice(use_hardware), open1, open2, mmap_ok)
        bus0 == [Bus EXCEPT !.mapped = opened.mapped]
        bus1 == neurax_write_reg(opened.device, bus0, NEURAX_REG_CONTROL, CTRL_RESET)
        bus2 == neurax_write_reg(opened.device, bus1, NEURAX_REG_CONTROL, 0)
    IN  /\ pc = "idle"
        /\ handle = "none"
        /\ IF config_null \/ device_null
           THEN /\ call' = [start EXCEPT !.ret = NEURAX_ERROR_INVALID_PARAM]
                /\ traffic' = <<>>
                /\ UNCHANGED <<handle, dev, os, regs>>
           ELSE IF ~alloc_ok
           THEN /\ call' = [start EXCEPT !.ret = NEURAX_ERROR_MEMORY_ALLOCATION]
                /\ traffic' = <<>>
                /\ UNCHANGED <<handle, dev, os, regs>>
           ELSE IF opened.ret # NEURAX_SUCCESS
           THEN /\ call' = [start EXCEPT !.ret = opened.ret]
                /\ traffic' = <<>>
                /\ UNCHANGED <<handle, dev, os, regs>>
           ELSE /\ handle' = "live"
                /\ dev' = [opened.device EXCEPT !.initialized = TRUE]
                /\ os' = [fd_open |-> opened.fd_open, mapped |-> opened.mapped]
                /\ regs' = bus2.regs
                /\ traffic' = bus2.traffic
                /\ call' = [start EXCEPT !.ret = opened.ret]
        /\ UNCHANGED <<pc, wait, ncalls, probe>>

\* A teardown that closes the device without resetting it.
CleanupBody_noreset(device, bus) ==
    IF device.initialized
    THEN LET closed == neurax_device_close(device)
             bus2 == IF closed.unmaps > 0
                     THEN [Mark(bus, "munmap") EXCEPT !.mapped = FALSE]
                     ELSE bus
             bus3 == IF closed.closes > 0 THEN Mark(bus2, "close") ELSE bus2
         IN  [device |-> [closed.device EXCEPT !.initialized = FALSE],
              bus |-> bus3, closes |-> closed.closes]
    ELSE [device |-> device, bus |-> bus, closes |-> 0]

\* The body of neurax_cleanup on the record it finds, up to the free.
CleanupBody(device, bus) ==
    IF device.initialized
    THEN LET bus1 == IF device.hardware_available
                     THEN neurax_write_reg(device, bus, NEURAX_REG_CONTROL,
                                           CTRL_RESET)
                     ELSE bus
             closed == neurax_device_close(device)
             bus2 == IF closed.unmaps > 0
                     THEN [Mark(bus1, "munmap") EXCEPT !.mapped = FALSE]
                     ELSE bus1
             bus3 == IF closed.closes > 0 THEN Mark(bus2, "close") ELSE bus2
         IN  [device |-> [closed.device EXCEPT !.initialized = FALSE],
              bus |-> bus3, closes |-> closed.closes]
    ELSE [device |-> device, bus |-> bus, closes |-> 0]

\* neurax_cleanup(device) with the caller's handle.  A second cleanup of
\* the same handle reads the freed record and frees it again: the
\* allocator either traps that or lets it pass.
neurax_cleanup(view, trapped) ==
    LET start == [NoCall EXCEPT !.op = "cleanup", !.stale = (handle = "freed"),
                                !.regs_before = regs, !.device_before = view]
        body == CleanupBody(view, Bus)
        freed == Mark(body.bus, "free")
    IN  /\ pc = "idle"
        /\ view \in Views
        /\ trapped => handle = "freed"
        /\ IF handle = "none"
           THEN /\ call' = [start EXCEPT !.ret = NEURAX_ERROR_INVALID_PARAM]
                /\ traffic' = <<>>
                /\ UNCHANGED <<handle, dev, os, regs>>
           ELSE IF body.bus.fault \/ trapped
           THEN /\ call' = [start EXCEPT !.ret = FAULT]
                /\ traffic' = body.bus.traffic
                /\ dev' = view
                /\ UNCHANGED <<handle, os, regs>>
           ELSE /\ call' = [start EXCEPT !.ret = NEURAX_SUCCESS]
                /\ handle' = "freed"
                /\ dev' = body.device
                /\ os' = [fd_open |-> os.fd_open /\ body.closes = 0,
                          mapped |-> freed.mapped]
                /\ regs' = freed.regs
                /\ traffic' = freed.traffic
        /\ UNCHANGED <<pc, wait, ncalls, probe>>

(***************************************************************************)
(* neurax_wait_for_completion, one loop iteration per step                 *)
(***************************************************************************)
\* The end of the call that is waiting, once the wait has returned error.
WaitReturn(error, bus) ==
    \E r \in {IF bus.fault
              THEN [ret |-> FAULT, output |-> call.output, bus |-> bus]
              ELSE AfterWait(call.op, error, bus, call.input, call.pool_config,
                             call.activation, call.output, 0)} :
        /\ call' = [call EXCEPT !.ret = r.ret, !.output = r.output]
        /\ regs' = r.bus.regs
        /\ traffic' = r.bus.traffic
        /\ pc' = "idle"

WaitBus == [Bus EXCEPT !.traffic = traffic]

\* The window can be read: otherwise neurax_read_reg returns 0.
Readable == dev.hardware_available /\ dev.register_base # "NULL"

\* A loop that tests the done bit before the error bit.
StatusResult_doneFirst(status) ==
    IF HasBit(status, STAT_DONE) THEN NEURAX_SUCCESS
    ELSE IF HasBit(status, STAT_ERROR) THEN NEURAX_ERROR_HARDWARE_FAILURE
    ELSE PENDING

\* What one iteration of the loop makes of the status it read: the error
\* bit is tested first, then the done bit; PENDING is another iteration.
StatusResult(status) ==
    IF HasBit(status, STAT_ERROR) THEN NEURAX_ERROR_HARDWARE_FAILURE
    ELSE IF HasBit(status, STAT_DONE) THEN NEURAX_SUCCESS
    ELSE PENDING


\* A loop whose busy iteration sleeps without adding to elapsed.
WaitPoll_noadvance(status) ==
    LET bus == neurax_read_reg(dev, WaitBus, NEURAX_REG_STATUS, status)
    IN  /\ pc = "polling"
        /\ U32Less(wait.elapsed, wait.budget)
        /\ Readable \/ status = 0
        /\ IF bus.fault
           THEN WaitReturn(FAULT, bus) /\ UNCHANGED wait
           ELSE IF StatusResult(status) # PENDING
           THEN WaitReturn(StatusResult(status), bus)
                /\ wait' = [wait EXCEPT !.reads = @ + 1]
           ELSE /\ wait.reads < MaxPolls
                /\ wait' = [wait EXCEPT !.reads = @ + 1]
                /\ traffic' = bus.traffic
                /\ UNCHANGED <<regs, pc, call>>
        /\ UNCHANGED <<handle, dev, os, ncalls, probe>>

\* while (elapsed < timeout_ms * 1000): one read of the status register.
WaitPoll(status) ==
    LET bus == neurax_read_reg(dev, WaitBus, NEURAX_REG_STATUS, status)
    IN  /\ pc = "polling"
        /\ U32Less(wait.elapsed, wait.budget)
        /\ Readable \/ status = 0
        /\ IF bus.fault
           THEN WaitReturn(FAULT, bus) /\ UNCHANGED wait
           ELSE IF StatusResult(status) # PENDING
           THEN WaitReturn(StatusResult(status), bus)
                /\ wait' = [wait EXCEPT !.reads = @ + 1]
           ELSE /\ wait.reads < MaxPolls
                /\ wait' = [wait EXCEPT !.reads = @ + 1,
                                        !.elapsed = U32Add(@, W(100))]
                /\ traffic' = bus.traffic
                /\ UNCHANGED <<regs, pc, call>>
        /\ UNCHANGED <<handle, dev, os, ncalls, probe>>

\* Every remaining read finds neither done nor error: the loop runs out
\* of its budget and the wait returns NEURAX_ERROR_TIMEOUT.
WaitQuiet ==
    LET left == U32DivSmall(U32Add(U32Sub(wait.budget, wait.elapsed), W(99)), 100)
        bus == [WaitBus EXCEPT !.traffic =
                   Append(@, <<"R*", NEURAX_REG_STATUS, ToNat(left)>>)]
    IN  /\ pc = "polling"
        /\ U32Less(wait.elapsed, wait.budget)
        /\ wait.reads = MaxPolls
        /\ ~(Readable /\ ~os.mapped)
        /\ wait' = [wait EXCEPT !.reads = @ + ToNat(left),
                                !.elapsed = U32Add(@, U32MulSmall(left, 100))]
        /\ WaitReturn(NEURAX_ERROR_TIMEOUT, bus)
        /\ UNCHANGED <<handle, dev, os, ncalls, probe>>

\* The loop condition fails: return NEURAX_ERROR_TIMEOUT.
WaitExpire ==
    /\ pc = "polling"
    /\ ~U32Less(wait.elapsed, wait.budget)
    /\ WaitReturn(NEURAX_ERROR_TIMEOUT, WaitBus)
    /\ UNCHANGED <<handle, dev, os, wait, ncalls, probe>>

(***************************************************************************)
(* Calls of the three operations and of neurax_wait_for_completion         *)
(***************************************************************************)
\* The caller is between calls and has operations left to call.
CanCall == pc = "idle" /\ (handle = "live" => ncalls < MaxCalls)

\* The call has run up to r: it has returned, or it is in the wait loop.
\* A call through a freed handle leaves in dev what it found there.
Proceed(start, view, r) ==
    /\ call' = [start EXCEPT !.ret = r.ret, !.output = r.output]
    /\ regs' = r.bus.regs
    /\ traffic' = r.bus.traffic
    /\ dev' = view
    /\ pc' = IF r.ret = PENDING THEN "polling" ELSE "idle"
    /\ wait' = IF r.ret = PENDING
               THEN [budget |-> U32MulSmall(W(start.timeout_ms), 1000),
                     elapsed |-> W(0), reads |-> 0]
               ELSE wait
    /\ ncalls' = IF handle = "live" THEN ncalls + 1 ELSE ncalls
    /\ UNCHANGED <<handle, os, probe>>

conv2d_call(view, input, weights, bias, config, output) ==
    LET start == [NoCall EXCEPT !.op = "conv2d", !.stale = (handle = "freed"),
                                !.input = input, !.weights = weights,
                                !.bias = bias, !.conv_config = config,
                                !.before = output, !.output = output,
                                !.regs_before = regs, !.device_before = view]
    IN  /\ CanCall
        /\ view \in Views
        /\ \E r \in {neurax_conv2d(handle = "none", view, Bus, input, weights,
                                    bias, config, output, 0)} :
               Proceed(start, view, r)

pooling_call(view, input, config, output) ==
    LET start == [NoCall EXCEPT !.op = "pooling", !.stale = (handle = "freed"),
                                !.input = input, !.pool_config = config,
                                !.timeout_ms = NEURAX_DEFAULT_TIMEOUT_MS,
                                !.before = output, !.output = output,
                                !.regs_before = regs, !.device_before = view]
    IN  /\ CanCall
        /\ view \in Views
        /\ \E r \in {neurax_pooling(handle = "none", view, Bus, input, config,
                                     output, 0)} :
               Proceed(start, view, r)

activation_call(view, input, activation, output) ==
    LET start == [NoCall EXCEPT !.op = "activation", !.stale = (handle = "freed"),
                                !.input = input, !.activation = activation,
                                !.timeout_ms = NEURAX_DEFAULT_TIMEOUT_MS,
                                !.before = output, !.output = output,
                                !.regs_before = regs, !.device_before = view]
    IN  /\ CanCall
        /\ view \in Views
        /\ \E r \in {neurax_activation(handle = "none", view, Bus, input,
                                        activation, output, 0)} :
               Proceed(start, view, r)

\* neurax_wait_for_completion(device, timeout_ms) called on its own; the
\* function dereferences device without a NULL check, so the caller of the
\* model passes a device.
neurax_wait_for_completion(view, timeout_ms) ==
    LET start == [NoCall EXCEPT !.op = "wait", !.stale = (handle = "freed"),
                                !.timeout_ms = timeout_ms,
                                !.regs_before = regs, !.device_before = view]
    IN  /\ CanCall
        /\ handle # "none"
        /\ view \in Views
        /\ Proceed(start, view,
                   [ret |-> IF ~view.hardware_available
                            THEN NEURAX_SUCCESS
                            ELSE PENDING,
                    output |-> NullTensor, bus |-> Bus])

Next ==
    \/ \E config_null, device_null, use_hardware, alloc_ok, open1, open2,
          mmap_ok \in BOOLEAN :
           neurax_init(config_null, device_null, use_hardware, alloc_ok,
                       open1, open2, mmap_ok)
    \/ \E view \in Views, trapped \in BOOLEAN : neurax_cleanup(view, trapped)
    \/ \E view \in Views, input \in Args(CallInputs, InputF),
          config \in Args(CallConvConfigs,
                          ConvConfig(1, 1, 0, 1, 1, FALSE, NEURAX_ACTIVATION_RELU)),
          output \in Args(CallOutputs, Output22) :
           conv2d_call(view, input, WeightsOne, NullTensor, config, output)
    \/ \E view \in Views, input \in Args(CallInputs, InputF),
          config \in Args(CallPoolConfigs, PoolConfig(2, 2, NEURAX_POOL_MAX)),
          output \in Args(CallOutputs, Output11) :
           pooling_call(view, input, config, output)
    \/ \E view \in Views, input \in Args(CallInputs, InputF),
          activation \in CallActivations,
          output \in Args(CallOutputs, Output22) :
           activation_call(view, input, activation, output)
    \/ \E view \in Views, timeout_ms \in WaitTimeouts :
           neurax_wait_for_completion(view, timeout_ms)
    \/ \E status \in StatusValues : WaitPoll(status)
    \/ WaitQuiet
    \/ WaitExpire

Spec == Init /\ [][Next]_vars

TypeOK ==
    /\ handle \in {"none", "live", "freed"}
    /\ pc \in {"idle", "polling"}
    /\ call.ret \in {NEURAX_SUCCESS, NEURAX_ERROR_INVALID_PARAM,
                     NEURAX_ERROR_NOT_INITIALIZED, NEURAX_ERROR_MEMORY_ALLOCATION,
                     NEURAX_ERROR_HARDWARE_FAILURE, NEURAX_ERROR_TIMEOUT,
                     PENDING, FAULT}
    /\ (pc = "polling") = (call.ret = PENDING /\ call.op # "none")

(***************************************************************************)
(* Properties of the calls                                                 *)
(***************************************************************************)
Operations == {"conv2d", "pooling", "activation"}

\* The current call has returned.
Returned == call.op # "none" /\ call.ret # PENDING

\* The call is one of the three operations on a live device that has the
\* hardware bound and use_hardware set.
OnHardware ==
    /\ call.op \in Operations
    /\ ~call.stale
    /\ call.device_before.hardware_available
    /\ call.device_before.use_hardware

\* The code the call's entry checks give its arguments (PENDING: they pass).
EntryOfCall ==
    IF call.op = "conv2d"
    THEN ConvEntry(FALSE, call.device_before, call.input, call.weights,
                   call.bias, call.conv_config, call.before)
    ELSE IF call.op = "pooling"
    THEN PoolEntry(FALSE, call.device_before, call.input, call.pool_config,
                   call.before)
    ELSE ActEntry(FALSE, call.device_before, call.input, call.before)

\* What the matching CPU kernel makes of the call's arguments.
CpuOfCall ==
    IF call.op = "conv2d"
    THEN neurax_cpu_conv2d(call.input, call.weights, call.bias,
                           call.conv_config, call.before, 0)
    ELSE IF call.op = "pooling"
    THEN neurax_cpu_pooling(call.input, call.pool_config, call.before, 0)
    ELSE neurax_cpu_activation(call.input, call.activation, call.before, 0)

\* The arguments are valid: they pass the entry checks and the output has
\* the dimensions the kernel expects.
ValidArguments ==
    call.op \in Operations /\ EntryOfCall = PENDING
    /\ CpuOfCall.ret = NEURAX_SUCCESS

Events(kind) == {i \in 1 .. Len(traffic) : traffic[i][1] = kind}

\* Some read of the status register in the call's trace showed bit.
ReadShowed(bit) ==
    \E i \in Events("R") :
        traffic[i][2] = NEURAX_REG_STATUS /\ HasBit(traffic[i][3], bit)

\* The hardware leg of the call ended in the error bit / ran out of budget.
LegError == ReadShowed(STAT_ERROR)

LegTimeout == Events("R*") # {}

CpuRan == Events("CPU") # {}

NullArgument ==
    \/ call.input.null
    \/ call.before.null
    \/ call.op = "conv2d" /\ (call.weights.null \/ call.conv_config.null)
    \/ call.op = "pooling" /\ call.pool_config.null

\* The call read a field of the device record it was given.
DereferencedDevice ==
    IF call.op \in Operations THEN ~NullArgument ELSE call.op \in {"cleanup", "wait"}

\* C2: once neurax_cleanup has returned Success, a call with the same
\* handle returns InvalidParam or NotInitialized and reads no field of the
\* released device record.
C2_StaleCallRejected ==
    (Returned /\ call.stale)
        => /\ call.ret \in {NEURAX_ERROR_INVALID_PARAM, NEURAX_ERROR_NOT_INITIALIZED}
           /\ ~DereferencedDevice

\* An activation through a freed handle that found initialized set in the
\* released record and ran to Success.
C2_Witness ==
    /\ Returned /\ call.stale /\ handle = "freed"
    /\ call.op = "activation"
    /\ DereferencedDevice
    /\ call.ret = NEURAX_SUCCESS

\* C3: a call of one of the three operations that returned InvalidParam
\* has written no register and left the output and every register as they
\* were before the call.
C3_InvalidParamNoEffect ==
    (Returned /\ call.op \in Operations /\ ~call.stale
     /\ call.ret = NEURAX_ERROR_INVALID_PARAM)
        => /\ call.output = call.before
           /\ regs = call.regs_before
           /\ Events("W") = {}

\* A convolution on hardware that returned InvalidParam for the shape of
\* its output after it had written the registers.
C3_Witness ==
    /\ Returned /\ OnHardware /\ call.op = "conv2d"
    /\ call.ret = NEURAX_ERROR_INVALID_PARAM
    /\ Events("W") # {}
    /\ regs # call.regs_before

\* The registers an operation writes, in the order it writes them.
ProgramOf(op) ==
    IF op = "conv2d"
    THEN <<NEURAX_REG_CONV_CONFIG, NEURAX_REG_DIM_CONFIG,
           NEURAX_REG_ACT_CONFIG, NEURAX_REG_CONTROL>>
    ELSE IF op = "pooling"
    THEN <<NEURAX_REG_POOL_CONFIG, NEURAX_REG_DIM_CONFIG, NEURAX_REG_CONTROL>>
    ELSE <<NEURAX_REG_ACT_CONFIG, NEURAX_REG_CONTROL>>

EnableOf(op) ==
    IF op = "conv2d" THEN CTRL_CONV_EN
    ELSE IF op = "pooling" THEN CTRL_POOL_EN
    ELSE CTRL_ACT_EN

\* The trace of the call starts with the writes of its program, the write
\* of the control register last, and holds no other write.
ProgramFirst ==
    LET program == ProgramOf(call.op)
    IN  /\ Len(traffic) >= Len(program)
        /\ \A i \in 1 .. Len(program) :
               traffic[i][1] = "W" /\ traffic[i][2] = program[i]
        /\ Events("W") = 1 .. Len(program)

\* The word the call wrote to the control register.
ControlWritten == traffic[Len(ProgramOf(call.op))][3]

StatusReads == Events("R") \cup Events("R*")

\* The call is one of the three operations on hardware and its arguments
\* passed the entry checks.
Programmed == OnHardware /\ EntryOfCall = PENDING

\* C4, as the specification states it: each of the three operations
\* writes its config registers, then the control register with its enable
\* bit and the start bit, then polls the status register, and runs the CPU
\* kernel only after that.
C4_StartThenPoll ==
    (Returned /\ Programmed)
        => /\ ProgramFirst
           /\ HasBit(ControlWritten, EnableOf(call.op))
           /\ HasBit(ControlWritten, CTRL_START)
           /\ StatusReads # {}
           /\ \A i \in StatusReads : \A j \in Events("CPU") : i < j

\* C4, as the code has it.  Pooling and activation: config registers, then
\* control with enable and start, then status reads of which only the last
\* shows done or error, then the CPU kernel if and only if that read
\* showed done without error.  Convolution: config registers, then control
\* with its enable bit and without start, no status read, then the CPU
\* kernel.
C4_TrafficOrder ==
    Programmed
        => /\ ProgramFirst
           /\ HasBit(ControlWritten, EnableOf(call.op))
           /\ \A j \in Events("CPU") : j = Len(traffic)
           /\ IF call.op = "conv2d"
              THEN /\ ~HasBit(ControlWritten, CTRL_START)
                   /\ StatusReads = {}
                   /\ Returned /\ CpuRan
              ELSE /\ HasBit(ControlWritten, CTRL_START)
                   /\ \A i \in Events("R") :
                          \/ StatusResult(traffic[i][3]) = PENDING
                          \/ Returned /\ i = Len(traffic) - Cardinality(Events("CPU"))
                   /\ Returned => StatusReads # {}
                   /\ CpuRan <=> /\ Returned
                                 /\ ReadShowed(STAT_DONE)
                                 /\ ~ReadShowed(STAT_ERROR)

\* A convolution on hardware: four writes, the control word without the
\* start bit, then the CPU kernel with no status read in between.
C4_Witness ==
    /\ Returned /\ Programmed /\ call.op = "conv2d"
    /\ ProgramFirst
    /\ ~HasBit(ControlWritten, CTRL_START)
    /\ traffic[Len(traffic)] = CpuMark
    /\ Len(traffic) = Len(ProgramOf("conv2d")) + 1

\* The device record the current call worked on: the one neurax_init made,
\* or the one the caller's handle names.
DeviceOfCall == IF call.op = "init" THEN dev ELSE call.device_before

\* The call is on a live device in emulated mode.
OnEmulated ==
    /\ call.op # "none" /\ ~call.stale
    /\ call.op = "init" => call.ret = NEURAX_SUCCESS
    /\ call.op # "init" => call.device_before.initialized
    /\ ~DeviceOfCall.hardware_available

RegisterAccesses == Events("W") \cup Events("R") \cup Events("R*")

\* C19: a call on a device in emulated mode reads and writes no register,
\* whatever its use_hardware flag; an operation whose arguments pass the
\* entry checks runs the CPU kernel and returns what the kernel returns.
C19_EmulatedNoRegisters ==
    OnEmulated =>
        /\ RegisterAccesses = {}
        /\ regs = call.regs_before
        /\ (call.op \in Operations /\ EntryOfCall = PENDING) =>
               /\ pc = "idle" /\ CpuRan
               /\ call.ret = CpuOfCall.ret
               /\ call.output = CpuOfCall.output

\* A pooling on an emulated device whose configuration asks for hardware
\* has run the CPU kernel and nothing else.
C19_Witness ==
    /\ OnEmulated /\ call.op = "pooling"
    /\ call.device_before.use_hardware
    /\ call.ret = NEURAX_SUCCESS
    /\ traffic = <<CpuMark>>

\* The call is a neurax_cleanup of a live device that returned Success.
CleanedUp ==
    call.op = "cleanup" /\ ~call.stale /\ call.ret = NEURAX_SUCCESS

ResetWrite == <<"W", NEURAX_REG_CONTROL, CTRL_RESET>>

ResetClear == <<"W", NEURAX_REG_CONTROL, 0>>

\* C20 as stated: neurax_cleanup of a hardware-bound device writes the
\* reset bit, clears it, unmaps the window, closes the handle and frees the
\* record, in this order and once each; of an emulated device it only
\* frees the record.
C20_ResetPulseTeardown ==
    CleanedUp =>
        traffic = IF call.device_before.hardware_available
                  THEN <<ResetWrite, ResetClear, <<"munmap", 0, 0>>,
                         <<"close", 0, 0>>, <<"free", 0, 0>>>>
                  ELSE <<<<"free", 0, 0>>>>

\* C20 amended: neurax_cleanup of a hardware-bound device writes the reset
\* bit once and never clears it (the control register holds the reset bit
\* when the window is unmapped), then unmaps the window, closes the handle
\* and frees the record, once each; of an emulated device it only frees
\* the record.
C20_ResetThenTeardown ==
    CleanedUp =>
        /\ traffic = IF call.device_before.hardware_available
                     THEN <<ResetWrite, <<"munmap", 0, 0>>, <<"close", 0, 0>>,
                            <<"free", 0, 0>>>>
                     ELSE <<<<"free", 0, 0>>>>
        /\ call.device_before.hardware_available
               => regs[NEURAX_REG_CONTROL] = CTRL_RESET
        /\ ~os.mapped /\ ~os.fd_open /\ handle = "freed"

\* A hardware-bound device has been cleaned up: the control register
\* still holds the reset bit.
C20_Witness ==
    /\ CleanedUp /\ call.device_before.hardware_available
    /\ Len(traffic) = 4 /\ traffic[1] = ResetWrite
    /\ regs[NEURAX_REG_CONTROL] = CTRL_RESET


\* The stage of its life the caller's device is in.  Opening lies inside
\* neurax_init, between the calloc and the return.
Lifecycle ==
    IF handle = "none" THEN "Uninitialized"
    ELSE IF handle = "freed" THEN "Closed"
    ELSE IF dev.hardware_available THEN "HardwareBound"
    ELSE "Emulated"

LifecycleRank(stage) ==
    IF stage = "Uninitialized" THEN 0
    ELSE IF stage = "Closed" THEN 2
    ELSE 1

\* The call is neurax_init and has bound the hardware.
InitBoundHardware ==
    call.op = "init" /\ call.ret = NEURAX_SUCCESS /\ dev.hardware_available

\* The call is one of the three operations, with a device and non-null
\* pointers (a NULL pointer is InvalidParam before the flag is read), and
\* found the initialized flag of its device record clear.
OnUninitialized ==
    /\ call.op \in Operations
    /\ handle # "none" /\ ~NullArgument
    /\ ~call.device_before.initialized

\* C21: a neurax_init that binds the hardware has written the reset bit
\* and then 0 to the control register, and nothing else, when the device is
\* marked initialized and the caller holds the handle; no handle is held
\* before the call returns; the device's life moves forward only
\* (Uninitialized, then HardwareBound or Emulated, then Closed, and never
\* from HardwareBound to Emulated or back); and an operation that finds the
\* initialized flag clear returns NotInitialized without a register access,
\* a CPU kernel or a change of the output.
C21_ResetBeforeUse ==
    /\ [](InitBoundHardware
            => /\ traffic = <<ResetWrite, ResetClear>>
               /\ regs[NEURAX_REG_CONTROL] = 0
               /\ dev.initialized /\ handle = "live"
               /\ ~call.device_before.initialized)
    /\ [](handle = "live" => dev.initialized)
    /\ [](OnUninitialized
            => /\ call.ret = NEURAX_ERROR_NOT_INITIALIZED
               /\ traffic = <<>>
               /\ call.output = call.before
               /\ regs = call.regs_before)
    /\ [][/\ LifecycleRank(Lifecycle') >= LifecycleRank(Lifecycle)
          /\ LifecycleRank(Lifecycle') = LifecycleRank(Lifecycle)
                 => Lifecycle' = Lifecycle
          /\ Lifecycle' # Lifecycle /\ Lifecycle = "Uninitialized"
                 => call'.op = "init" /\ handle = "none"]_vars

\* neurax_init has just bound the hardware: the reset pulse is in its
\* trace and the device is initialized.
C21_Witness ==
    /\ InitBoundHardware
    /\ traffic = <<ResetWrite, ResetClear>>
    /\ dev.initialized /\ handle = "live"

\* C5: neurax_init with non-null pointers fails only when the allocation
\* of the device record fails; otherwise it returns Success with an
\* initialized device, whose hardware_available is set exactly when one of
\* the two device paths opened and the mapping succeeded.
C5_InitDegrades ==
    (call.op = "init" /\ ~call.env.config_null /\ ~call.env.device_null)
        => /\ call.ret = IF call.env.alloc_ok
                         THEN NEURAX_SUCCESS
                         ELSE NEURAX_ERROR_MEMORY_ALLOCATION
           /\ call.env.alloc_ok
                  => /\ handle = "live"
                     /\ dev.initialized
                     /\ dev.hardware_available
                            <=> /\ call.env.open1 \/ call.env.open2
                                /\ call.env.mmap_ok
                     /\ os.mapped = dev.hardware_available
                     /\ os.fd_open = dev.hardware_available

\* An init that found a device path but could not map it: Success, and an
\* initialized device in emulated mode.
C5_Witness ==
    /\ call.op = "init" /\ ~call.env.config_null /\ ~call.env.device_null
    /\ call.env.alloc_ok /\ call.env.open2 /\ ~call.env.open1 /\ ~call.env.mmap_ok
    /\ call.ret = NEURAX_SUCCESS
    /\ handle = "live" /\ dev.initialized /\ ~dev.hardware_available

\* The call is neurax_wait_for_completion on a live hardware-bound device.
WaitOnHardware ==
    call.op = "wait" /\ ~call.stale /\ call.device_before.hardware_available

\* C6, as the specification states it: a read with the done bit yields
\* Success, a read with the error bit yields HardwareFailure, and Timeout
\* is returned only when no read showed done or error.
C6_BitYieldsResult ==
    (Returned /\ WaitOnHardware)
        => /\ ReadShowed(STAT_DONE) => call.ret = NEURAX_SUCCESS
           /\ ReadShowed(STAT_ERROR) => call.ret = NEURAX_ERROR_HARDWARE_FAILURE
           /\ call.ret = NEURAX_ERROR_TIMEOUT
                  => ~ReadShowed(STAT_DONE) /\ ~ReadShowed(STAT_ERROR)

\* C6, as the code has it: the error bit wins over the done bit.  A read
\* with the error bit yields HardwareFailure, a read with the done bit and
\* without the error bit yields Success, Timeout is returned exactly when
\* no read showed done or error, and the wait goes on only while no read
\* has shown either.
C6_ErrorBeforeDone ==
    WaitOnHardware
        => /\ ~Returned => ~ReadShowed(STAT_DONE) /\ ~ReadShowed(STAT_ERROR)
           /\ Returned
                  => /\ ReadShowed(STAT_ERROR)
                         <=> call.ret = NEURAX_ERROR_HARDWARE_FAILURE
                     /\ (ReadShowed(STAT_DONE) /\ ~ReadShowed(STAT_ERROR))
                         <=> call.ret = NEURAX_SUCCESS
                     /\ (~ReadShowed(STAT_DONE) /\ ~ReadShowed(STAT_ERROR))
                         <=> call.ret = NEURAX_ERROR_TIMEOUT

\* A wait whose second read showed done and error together after a busy
\* read: HardwareFailure.
C6_Witness ==
    /\ Returned /\ WaitOnHardware
    /\ Len(traffic) = 2
    /\ traffic[1] = <<"R", NEURAX_REG_STATUS, STAT_BUSY>>
    /\ traffic[2] = <<"R", NEURAX_REG_STATUS, STAT_DONE + STAT_ERROR>>
    /\ call.ret = NEURAX_ERROR_HARDWARE_FAILURE

(***************************************************************************)
(* Element stores on their own: a value is written into a one-element      *)
(* tensor of each type by each of the three writers and read back.         *)
(***************************************************************************)
\* neurax_convert_data_type on num_elements elements of non-NULL buffers.
neurax_convert_data_type(src, src_type, dst, dst_type, num_elements) ==
    IF num_elements = 0
    THEN [ret |-> NEURAX_ERROR_INVALID_PARAM, dst |-> dst]
    ELSE [ret |-> NEURAX_SUCCESS,
          dst |-> [i \in 1 .. Len(dst) |->
                      IF i <= num_elements
                      THEN convert_element(src_type, src[i], dst_type, dst[i])
                      ELSE dst[i]]]

\* The whole parts of the values stored: the ends of every type's range,
\* their neighbours, and small values of both signs.
StoreWholes ==
    {-32770, -32769, -32768, -32767, -130, -129, -128, -127, -2, -1, 0, 1, 2,
     126, 127, 128, 254, 255, 256, 32766, 32767, 32768, 65534, 65535, 65536}

\* Values in units of 1/FRAC: every whole part with every fraction.
StoreValues == {w * FRAC + f : w \in StoreWholes, f \in 0 .. FRAC - 1}

StorePaths == {"value", "element", "convert"}

StoreInit ==
    /\ DeviceInit
    /\ probe \in {[kind |-> "store", type |-> t, value |-> v, done |-> {},
                   value_read |-> 0, element_read |-> 0, convert_read |-> 0] :
                     t \in DataTypes, v \in StoreValues}

\* The one-element tensor of the type under test, holding 0.
Cell(type) == Tensor(1, 1, 1, 1, type, <<0>>)

\* neurax_set_tensor_value(cell, 0, 0, 0, 0, value), then
\* neurax_get_tensor_value(cell, 0, 0, 0, 0).
StoreByValue ==
    /\ probe.kind = "store" /\ "value" \notin probe.done
    /\ probe' = [probe EXCEPT
           !.done = @ \cup {"value"},
           !.value_read = neurax_get_tensor_value(
               neurax_set_tensor_value(Cell(probe.type), 0, 0, 0, 0, probe.value),
               0, 0, 0, 0, 0)]
    /\ UNCHANGED devVars

\* neurax_set_tensor_element(cell, 0, value), then
\* neurax_get_tensor_element(cell, 0).
StoreByElement ==
    /\ probe.kind = "store" /\ "element" \notin probe.done
    /\ probe' = [probe EXCEPT
           !.done = @ \cup {"element"},
           !.element_read = neurax_get_tensor_element(
               neurax_set_tensor_element(Cell(probe.type), 0, probe.value), 0, 0)]
    /\ UNCHANGED devVars

\* neurax_convert_data_type from a float32 buffer that holds value into
\* the cell's storage, then neurax_get_tensor_element(cell, 0).
StoreByConvert ==
    /\ probe.kind = "store" /\ "convert" \notin probe.done
    /\ probe' = [probe EXCEPT
           !.done = @ \cup {"convert"},
           !.convert_read = neurax_get_tensor_element(
               [Cell(probe.type) EXCEPT !.data =
                    neurax_convert_data_type(<<probe.value>>, NEURAX_DATA_FLOAT32,
                                             @, probe.type, 1).dst],
               0, 0)]
    /\ UNCHANGED devVars

StoreNext == StoreByValue \/ StoreByElement \/ StoreByConvert

StoreSpec == StoreInit /\ [][StoreNext]_vars

\* The range of an integer element type, in whole numbers.
RangeLow(type) ==
    CASE type = NEURAX_DATA_INT8 -> -128
      [] type = NEURAX_DATA_INT16 -> -32768
      [] OTHER -> 0

RangeHigh(type) ==
    CASE type = NEURAX_DATA_UINT8 -> 255
      [] type = NEURAX_DATA_INT8 -> 127
      [] type = NEURAX_DATA_UINT16 -> 65535
      [] OTHER -> 32767

Clamp(x, low, high) == IF x < low THEN low ELSE IF x > high THEN high ELSE x

\* The whole number n is a nearest integer of v (both for a tie).
IsNearest(n, v) ==
    LET d == IF v >= n * FRAC THEN v - n * FRAC ELSE n * FRAC - v
    IN  2 * d <= FRAC

\* The whole number n is v with its fraction discarded.
IsTruncation(n, v) ==
    IF v >= 0
    THEN n * FRAC <= v /\ v < (n + 1) * FRAC
    ELSE (n - 1) * FRAC < v /\ v <= n * FRAC

\* What was read back on each path taken so far.
ReadBack ==
    {probe.value_read : p \in probe.done \cap {"value"}}
    \cup {probe.element_read : p \in probe.done \cap {"element"}}
    \cup {probe.convert_read : p \in probe.done \cap {"convert"}}

\* C7, as the specification states it: the value read back is
\* clamp(round-to-nearest(v), range(T)), whichever way a tie is rounded,
\* and v itself for float32, on all three paths.
C7_RoundToNearest ==
    \A r \in ReadBack :
        IF probe.type = NEURAX_DATA_FLOAT32
        THEN r = probe.value
        ELSE \E n \in {probe.value \div FRAC, probe.value \div FRAC + 1} :
                 /\ IsNearest(n, probe.value)
                 /\ r = Clamp(n, RangeLow(probe.type), RangeHigh(probe.type)) * FRAC

\* C7, as the code has it: the value is clamped to the range of T and its
\* fraction is then discarded (conversion toward zero); float32 is stored
\* unchanged; the three paths read back the same value.
C7_ClampThenTruncate ==
    \A r \in ReadBack :
        IF probe.type = NEURAX_DATA_FLOAT32
        THEN r = probe.value
        ELSE /\ r % FRAC = 0
             /\ IsTruncation(r \div FRAC,
                             Clamp(probe.value, RangeLow(probe.type) * FRAC,
                                   RangeHigh(probe.type) * FRAC))

\* 2.75 written to a uint8 cell on all three paths: each reads back 2.
C7_Witness ==
    /\ probe.kind = "store" /\ probe.done = StorePaths
    /\ probe.type = NEURAX_DATA_UINT8
    /\ probe.value = 2 * FRAC + (FRAC - 1)
    /\ ReadBack = {2 * FRAC}

(***************************************************************************)
(* Shapes: neurax_conv2d and neurax_pooling on an emulated device, for     *)
(* every small input shape, window, stride and padding, and for output     *)
(* tensors of every small shape and of the shapes uint32 arithmetic wraps  *)
(* to.                                                                     *)
(***************************************************************************)
MaxDim == 3

MaxWindow == 3

MaxStride == 3

MaxPadding == 1

\* A validated tensor too large to enumerate: its header only.
Header(w, h, c, b, type) ==
    [null |-> FALSE, has_data |-> TRUE, tracked |-> FALSE,
     width |-> w, height |-> h, channels |-> c, batch_size |-> b,
     data_type |-> type,
     data_size |-> w * h * c * b * neurax_get_element_size(type),
     data |-> <<>>]

Filled(w, h, c, b, type, element) ==
    Tensor(w, h, c, b, type, [i \in 1 .. w * h * c * b |-> element])

\* (0 - d) / stride + 1 in uint32: the dimension the kernels expect when
\* the window exceeds the input by d.
WrappedDim(d, stride) ==
    U32Add(U32DivSmall(U32Sub(W(0), W(d)), stride), W(1))

\* The wrapped dimensions small enough for a tensor that can be allocated
\* (below 2^31 elements).
WrappedDims ==
    {ToNat(WrappedDim(d, s)) : d \in 1 .. MaxWindow, s \in 3 .. MaxStride}

\* The shapes of the output tensors drawn: every small shape, and the
\* wrapped dimensions on one axis.
OutputShapes ==
    ((1 .. MaxDim + 1) \X (1 .. MaxDim + 1))
    \cup {<<n, 1>> : n \in WrappedDims} \cup {<<1, n>> : n \in WrappedDims}

ShapeOutput(shape) ==
    IF shape[1] <= MaxDim + 1 /\ shape[2] <= MaxDim + 1
    THEN Filled(shape[1], shape[2], 1, 1, NEURAX_DATA_UINT8, 7)
    ELSE Header(shape[1], shape[2], 1, 1, NEURAX_DATA_UINT8)

\* An initialized device in emulated mode.
EmulatedDevice == [NewDevice(FALSE) EXCEPT !.initialized = TRUE]

IdleBus ==
    [regs |-> [r \in Registers |-> 0], traffic |-> <<>>, mapped |-> FALSE,
     fault |-> FALSE]

ShapeInit ==
    /\ DeviceInit
    /\ probe \in
         {[kind |-> "shape", op |-> "none",
           input |-> Filled(in[1], in[2], 1, 1, NEURAX_DATA_UINT8, 1),
           window |-> window, stride |-> stride, padding |-> padding,
           output |-> ShapeOutput(shape), after |-> NullTensor,
           ret |-> PENDING] :
             in \in (1 .. MaxDim) \X (1 .. MaxDim),
             window \in 1 .. MaxWindow, stride \in 1 .. MaxStride,
             padding \in 0 .. MaxPadding, shape \in OutputShapes}

ShapeConvConfig ==
    ConvConfig(probe.window, probe.stride, probe.padding, 1, 1, FALSE,
               NEURAX_ACTIVATION_LINEAR)

ShapePoolConfig == PoolConfig(probe.window, probe.stride, NEURAX_POOL_MAX)

\* neurax_conv2d(device, input, weights, NULL, config, output) with
\* weights of the kernel's size.
ShapeConv ==
    /\ probe.kind = "shape" /\ probe.op = "none"
    /\ \E r \in {neurax_conv2d(FALSE, EmulatedDevice, IdleBus, probe.input,
                     Filled(probe.window, probe.window, 1, 1,
                            NEURAX_DATA_UINT8, 1),
                     NullTensor, ShapeConvConfig, probe.output, 0)} :
           probe' = [probe EXCEPT !.op = "conv2d", !.ret = r.ret,
                                  !.after = r.output]
    /\ UNCHANGED devVars

\* neurax_pooling(device, input, config, output); the padding drawn plays
\* no part.
ShapePool ==
    /\ probe.kind = "shape" /\ probe.op = "none"
    /\ probe.padding = 0
    /\ \E r \in {neurax_pooling(FALSE, EmulatedDevice, IdleBus, probe.input,
                                ShapePoolConfig, probe.output, 0)} :
           probe' = [probe EXCEPT !.op = "pooling", !.ret = r.ret,
                                  !.after = r.output]
    /\ UNCHANGED devVars

ShapeNext == ShapeConv \/ ShapePool

ShapeSpec == ShapeInit /\ [][ShapeNext]_vars

\* floor((in + 2 * pad - window) / stride) + 1 in the integers.
FormulaDim(in, pad, window, stride) == (in + 2 * pad - window) \div stride + 1

SameShape(a, b) ==
    /\ a.width = b.width /\ a.height = b.height
    /\ a.channels = b.channels /\ a.batch_size = b.batch_size

\* The output tensor has the height and width of the formula.
FormulaShape(pad) ==
    /\ probe.output.width
           = FormulaDim(probe.input.width, pad, probe.window, probe.stride)
    /\ probe.output.height
           = FormulaDim(probe.input.height, pad, probe.window, probe.stride)

\* C8: neurax_conv2d returns Success only for an output tensor of the
\* formula's height and width, returns InvalidParam for any other, and
\* never changes the shape of the output.
C8_ConvShape ==
    (probe.kind = "shape" /\ probe.op = "conv2d")
        => /\ probe.ret = NEURAX_SUCCESS => FormulaShape(probe.padding)
           /\ ~FormulaShape(probe.padding)
                  => probe.ret = NEURAX_ERROR_INVALID_PARAM
           /\ SameShape(probe.after, probe.output)

\* A convolution whose kernel is wider than the padded input and that
\* returned Success, for an output of the wrapped width.
C8_Witness ==
    /\ probe.kind = "shape" /\ probe.op = "conv2d"
    /\ probe.input.width + 2 * probe.padding < probe.window
    /\ probe.output.width \in WrappedDims
    /\ probe.ret = NEURAX_SUCCESS

\* C10: neurax_pooling returns Success only for an output tensor of the
\* formula's height and width, and InvalidParam for any other.
C10_PoolShape ==
    (probe.kind = "shape" /\ probe.op = "pooling")
        => /\ probe.ret = NEURAX_SUCCESS => FormulaShape(0)
           /\ ~FormulaShape(0) => probe.ret = NEURAX_ERROR_INVALID_PARAM

\* A pooling whose window is wider than the input and that returned
\* Success, for an output of the wrapped width.
C10_Witness ==
    /\ probe.kind = "shape" /\ probe.op = "pooling"
    /\ probe.input.width < probe.window
    /\ probe.output.width \in WrappedDims
    /\ probe.ret = NEURAX_SUCCESS

(***************************************************************************)
(* Contents: neurax_conv2d on an emulated device for small tensors whose   *)
(* elements are followed, for every combination of the channel counts of   *)
(* the tensors and of the configuration.                                   *)
(***************************************************************************)
MaxChannels == 2

\* Kernel size, stride and padding of the convolutions drawn.
ConvGeometries == {<<1, 1, 0>>, <<2, 1, 0>>, <<2, 2, 0>>, <<2, 1, 1>>, <<1, 2, 1>>}

\* What a read outside a tensor's storage may return.
JunkValues == {0, 5 * FRAC}

\* A float32 tensor holding the whole numbers low, low + 1, ... in a cycle
\* of span.
Ramp(w, h, c, b, low, span) ==
    Tensor(w, h, c, b, NEURAX_DATA_FLOAT32,
           [i \in 1 .. w * h * c * b |-> (low + ((i - 1) % span)) * FRAC])

ConvInit ==
    /\ DeviceInit
    /\ probe \in
         {[kind |-> "conv", done |-> FALSE,
           input |-> Ramp(2, 2, in_ch, 1, -2, 5),
           weights |-> Ramp(g[1], g[1], in_ch, out_ch, -1, 4),
           bias |-> IF with_bias THEN Ramp(out_ch, 1, 1, 1, 1, 3) ELSE NullTensor,
           config |-> ConvConfig(g[1], g[2], g[3], cfg_in, cfg_out, use_bias,
                                 activation),
           output |-> Filled((2 + 2 * g[3] - g[1]) \div g[2] + 1,
                             (2 + 2 * g[3] - g[1]) \div g[2] + 1,
                             out_ch, 1, type, 7),
           after |-> NullTensor, ret |-> PENDING, junk |-> 0] :
             in_ch \in 1 .. MaxChannels, out_ch \in 1 .. MaxChannels,
             cfg_in \in 1 .. MaxChannels, cfg_out \in 1 .. MaxChannels,
             g \in ConvGeometries, with_bias \in BOOLEAN, use_bias \in BOOLEAN,
             activation \in {NEURAX_ACTIVATION_RELU, NEURAX_ACTIVATION_LINEAR},
             type \in {NEURAX_DATA_FLOAT32, NEURAX_DATA_UINT8}}

\* neurax_conv2d(device, input, weights, bias, config, output); junk is
\* what the reads outside the storage of a tensor return.
ConvCall(junk) ==
    /\ probe.kind = "conv" /\ ~probe.done
    /\ \E r \in {neurax_conv2d(FALSE, EmulatedDevice, IdleBus, probe.input,
                               probe.weights, probe.bias, probe.config,
                               probe.output, junk)} :
           probe' = [probe EXCEPT !.done = TRUE, !.ret = r.ret,
                                  !.after = r.output, !.junk = junk]
    /\ UNCHANGED devVars

ConvNext == \E junk \in JunkValues : ConvCall(junk)

ConvSpec == ConvInit /\ [][ConvNext]_vars


\* The output positions [batch, out_ch, out_y, out_x] the loops of
\* neurax_cpu_conv2d visit once the output has passed the shape check.
ConvPositions(input, config, output) ==
    (0 .. input.batch_size - 1) \X (0 .. config.output_channels - 1)
        \X (0 .. output.height - 1) \X (0 .. output.width - 1)

\* The taps [in_ch, ky, kx] of one output position.
ConvTaps(config) ==
    (0 .. config.input_channels - 1) \X (0 .. config.kernel_height - 1)
        \X (0 .. config.kernel_width - 1)

\* The taps of position p that pass the bounds check on in_y and in_x, each
\* with its input coordinate: <<in_ch, ky, kx, in_y, in_x>>.
ConvTapsInside(input, config, p) ==
    {<<t[1], t[2], t[3], p[3] * config.stride_y + t[2] - config.padding_y,
       p[4] * config.stride_x + t[3] - config.padding_x>> : t \in
        {u \in ConvTaps(config) :
            /\ p[3] * config.stride_y + u[2] - config.padding_y >= 0
            /\ p[3] * config.stride_y + u[2] - config.padding_y < input.height
            /\ p[4] * config.stride_x + u[3] - config.padding_x >= 0
            /\ p[4] * config.stride_x + u[3] - config.padding_x < input.width}}

\* The element indices neurax_get_tensor_value reads in the input.
ConvInputIndices(input, config, output) ==
    UNION {{TensorIndex(input, p[1], t[4], t[5], t[1]) :
                t \in ConvTapsInside(input, config, p)} :
           p \in ConvPositions(input, config, output)}

\* The element indices neurax_get_weight_value reads in the weights.
ConvWeightIndices(input, weights, config, output) ==
    UNION {{((p[2] * weights.channels + t[1]) * weights.height + t[2])
                * weights.width + t[3] :
                t \in ConvTapsInside(input, config, p)} :
           p \in ConvPositions(input, config, output)}

\* The element indices neurax_get_bias_value reads in the bias.
ConvBiasIndices(input, bias, config, output) ==
    IF config.use_bias /\ ~bias.null
    THEN {p[2] : p \in ConvPositions(input, config, output)}
    ELSE {}

\* The element indices neurax_set_tensor_value writes in the output.
ConvOutputIndices(input, config, output) ==
    {TensorIndex(output, p[1], p[3], p[4], p[2]) :
        p \in ConvPositions(input, config, output)}

\* The number of elements the storage of a tensor holds.
ElementCount(tensor) == tensor.data_size \div neurax_get_element_size(tensor.data_type)

\* Element [b, y, x, c] of a tensor laid out batch, row, column, channel.
At(tensor, b, y, x, c) ==
    tensor.data[((b * tensor.height + y) * tensor.width + x) * tensor.channels
                + c + 1]

\* The weight of [oc, ic, ky, kx]: output channel, input channel, row,
\* column, for in_channels input channels.
WeightAt(weights, in_channels, oc, ic, ky, kx) ==
    weights.data[((oc * in_channels + ic) * weights.height + ky) * weights.width
                 + kx + 1]

\* The product of input and weight at tap t = <<ic, ky, kx>> of output
\* position [b, oy, ox, oc].
TapProduct(t, b, oy, ox, oc) ==
    LET c == probe.config
    IN  (At(probe.input, b, oy * c.stride_y + t[2] - c.padding_y,
            ox * c.stride_x + t[3] - c.padding_x, t[1])
         * WeightAt(probe.weights, probe.input.channels, oc, t[1], t[2], t[3]))
        \div FRAC

RECURSIVE TapSum(_, _, _, _, _)
TapSum(taps, b, oy, ox, oc) ==
    IF taps = {} THEN 0
    ELSE LET t == CHOOSE u \in taps : TRUE
         IN  TapProduct(t, b, oy, ox, oc) + TapSum(taps \ {t}, b, oy, ox, oc)

\* The sum the convolution is defined by, over all input channels of the
\* input tensor and the kernel taps that fall inside the input, plus the
\* bias, through the activation.
ConvFormula(b, oy, ox, oc) ==
    LET c == probe.config
        taps == {t \in (0 .. probe.input.channels - 1)
                       \X (0 .. c.kernel_height - 1) \X (0 .. c.kernel_width - 1) :
                    /\ oy * c.stride_y + t[2] - c.padding_y \in 0 .. probe.input.height - 1
                    /\ ox * c.stride_x + t[3] - c.padding_x \in 0 .. probe.input.width - 1}
        sum == TapSum(taps, b, oy, ox, oc)
              + (IF c.use_bias /\ ~probe.bias.null
                 THEN probe.bias.data[oc + 1]
                 ELSE 0)
    IN  IF c.activation = NEURAX_ACTIVATION_RELU /\ sum < 0 THEN 0 ELSE sum

\* The element stored holds value, saturated to the type of the output.
Saturated(stored, value, type) ==
    IF type = NEURAX_DATA_FLOAT32
    THEN stored = value
    ELSE IsTruncation(stored, Clamp(value, RangeLow(type) * FRAC,
                                    RangeHigh(type) * FRAC))

\* C9: after a successful neurax_conv2d every element [b, oy, ox, oc] of
\* the output holds the saturated, activated sum of the formula.
C9_ConvFormula ==
    (probe.kind = "conv" /\ probe.done /\ probe.ret = NEURAX_SUCCESS)
        => \A b \in 0 .. probe.after.batch_size - 1,
              oy \in 0 .. probe.after.height - 1,
              ox \in 0 .. probe.after.width - 1,
              oc \in 0 .. probe.after.channels - 1 :
                Saturated(At(probe.after, b, oy, ox, oc),
                          ConvFormula(b, oy, ox, oc), probe.after.data_type)

\* The channel counts of the configuration are those of the tensors.
ChannelsAgree ==
    /\ probe.config.input_channels = probe.input.channels
    /\ probe.config.output_channels = probe.after.channels

\* A successful convolution whose configuration names one output channel
\* for an output tensor of two: channel 1 of the output holds 0, not the
\* sum of the formula.
C9_Witness ==
    /\ probe.kind = "conv" /\ probe.done /\ probe.ret = NEURAX_SUCCESS
    /\ probe.config.input_channels = probe.input.channels
    /\ probe.config.output_channels = 1 /\ probe.after.channels = 2
    /\ At(probe.after, 0, 0, 0, 1) = 0
    /\ ConvFormula(0, 0, 0, 1) # 0

(***************************************************************************)
(* Contents: neurax_pooling on an emulated device for small tensors whose  *)
(* elements are followed, with the output tensor of the shape the kernel   *)
(* expects.  The strides drawn include one near 2^31: the validation puts  *)
(* no ceiling on the stride, and with such a stride the shape the kernel   *)
(* expects for a window wider than the input is small.                     *)
(***************************************************************************)
\* 2^31 - 1.
BigStride == (B16 \div 4) * B16 + ((B16 \div 4) * B16 - 1)

PoolStrides == {1, 2, BigStride}

PoolWindows == {1, 2}

PoolInputs ==
    {Ramp(3, 3, 1, 1, -2, 5),
     Filled(4, 4, 1, 1, NEURAX_DATA_FLOAT32, 1 * FRAC),
     Ramp(1, 2, 1, 1, 1, 3),
     Ramp(2, 2, 2, 1, -1, 4),
     Ramp(2, 1, 1, 2, 0, 3),
     Tensor(2, 2, 1, 1, NEURAX_DATA_UINT8, <<1, 2, 3, 5>>)}

\* Whether a 32-bit dimension is one an output tensor is drawn for.
SmallDim(a) == a[1] = 0 /\ a[2] \in 1 .. 4

\* Input, window and stride of the calls drawn: those for which the kernel
\* expects a small output.
PoolGeometries ==
    {g \in PoolInputs \X PoolWindows \X PoolStrides :
         /\ SmallDim(pool_out_width(g[1], PoolConfig(g[2], g[3], 0)))
         /\ SmallDim(pool_out_height(g[1], PoolConfig(g[2], g[3], 0)))}

PoolInit ==
    /\ DeviceInit
    /\ probe \in
         {[kind |-> "pool", done |-> FALSE, input |-> g[1],
           config |-> PoolConfig(g[2], g[3], type),
           output |-> Filled(
               ToNat(pool_out_width(g[1], PoolConfig(g[2], g[3], type))),
               ToNat(pool_out_height(g[1], PoolConfig(g[2], g[3], type))),
               g[1].channels, g[1].batch_size, out_type, 7),
           after |-> NullTensor, ret |-> PENDING, junk |-> 0] :
             g \in PoolGeometries,
             type \in {NEURAX_POOL_MAX, NEURAX_POOL_AVERAGE},
             out_type \in {NEURAX_DATA_FLOAT32, NEURAX_DATA_UINT8}}

\* neurax_pooling(device, input, config, output).
PoolCall(junk) ==
    /\ probe.kind = "pool" /\ ~probe.done
    /\ \E r \in {neurax_pooling(FALSE, EmulatedDevice, IdleBus, probe.input,
                                probe.config, probe.output, junk)} :
           probe' = [probe EXCEPT !.done = TRUE, !.ret = r.ret,
                                  !.after = r.output, !.junk = junk]
    /\ UNCHANGED devVars

PoolNext == \E junk \in JunkValues : PoolCall(junk)

PoolSpec == PoolInit /\ [][PoolNext]_vars

\* The input coordinate o * stride + p of tap p of output position o, in
\* the integers; with a stride near 2^31 every position but the first lies
\* beyond each input drawn (B16 stands for such a coordinate).
PoolCoord(o, stride, p) ==
    IF o = 0 THEN p
    ELSE IF stride >= B16 THEN B16
    ELSE o * stride + p

\* The cells <<y, x>> of the input inside the window of output position
\* [oy, ox].
WindowCells(oy, ox) ==
    LET c == probe.config
    IN  {cell \in (0 .. probe.input.height - 1) \X (0 .. probe.input.width - 1) :
            \E py \in 0 .. c.pool_height - 1, px \in 0 .. c.pool_width - 1 :
                /\ cell[1] = PoolCoord(oy, c.stride_y, py)
                /\ cell[2] = PoolCoord(ox, c.stride_x, px)}

\* The input value at a cell, as a float.
CellValue(cell, b, ch) ==
    LoadElement(probe.input.data_type,
                At(probe.input, b, cell[1], cell[2], ch))

RECURSIVE CellSum(_, _, _)
CellSum(cells, b, ch) ==
    IF cells = {} THEN 0
    ELSE LET cell == CHOOSE u \in cells : TRUE
         IN  CellValue(cell, b, ch) + CellSum(cells \ {cell}, b, ch)

CellMax(cells, b, ch) ==
    CHOOSE m \in {CellValue(cell, b, ch) : cell \in cells} :
        \A cell \in cells : CellValue(cell, b, ch) <= m

\* The mean of the cells (exact for the inputs drawn).
CellMean(cells, b, ch) == CellSum(cells, b, ch) \div Cardinality(cells)

PoolSucceeded ==
    probe.kind = "pool" /\ probe.done /\ probe.ret = NEURAX_SUCCESS

AveragePooled ==
    PoolSucceeded /\ probe.config.pool_type = NEURAX_POOL_AVERAGE

\* The output positions [b, oy, ox, ch] of the tensor returned.
OutputPositions ==
    (0 .. probe.after.batch_size - 1) \X (0 .. probe.after.height - 1)
        \X (0 .. probe.after.width - 1) \X (0 .. probe.after.channels - 1)

\* The call on a 3x3 input with a 2x2 window and stride 2.
ThreeByThree ==
    /\ probe.input.width = 3 /\ probe.input.height = 3
    /\ probe.config.pool_width = 2 /\ probe.config.stride_x = 2

\* C11 as stated: average pooling divides the sum of each window by the
\* number of in-bounds taps, and on a 3x3 input with a 2x2 window and
\* stride 2 some output cell averages fewer than 4 taps.
C11_EdgeCellFewerTaps ==
    AveragePooled =>
        /\ \A p \in OutputPositions :
               WindowCells(p[2], p[3]) # {} =>
                   Saturated(At(probe.after, p[1], p[2], p[3], p[4]),
                             CellMean(WindowCells(p[2], p[3]), p[1], p[4]),
                             probe.after.data_type)
        /\ ThreeByThree =>
               \E p \in OutputPositions :
                   Cardinality(WindowCells(p[2], p[3])) < 4

\* C11 amended: average pooling divides the sum of each window by the
\* number of in-bounds taps (a window with no in-bounds tap stores 0); on
\* a 3x3 input with a 2x2 window and stride 2 the output is 1x1 and its
\* one window holds all 4 taps; a window holds fewer taps than its area
\* only when the window is larger than the input.
C11_AverageOverVisited ==
    AveragePooled =>
        /\ \A p \in OutputPositions :
               Saturated(At(probe.after, p[1], p[2], p[3], p[4]),
                         IF WindowCells(p[2], p[3]) = {} THEN 0
                         ELSE CellMean(WindowCells(p[2], p[3]), p[1], p[4]),
                         probe.after.data_type)
        /\ ThreeByThree =>
               /\ probe.after.width = 1 /\ probe.after.height = 1
               /\ Cardinality(WindowCells(0, 0)) = 4
        /\ (/\ probe.config.pool_width <= probe.input.width
            /\ probe.config.pool_height <= probe.input.height) =>
               \A p \in OutputPositions :
                   Cardinality(WindowCells(p[2], p[3]))
                       = probe.config.pool_width * probe.config.pool_height

\* Average pooling of the 3x3 input with a 2x2 window and stride 2 has
\* returned its one cell, the mean of 4 taps.
C11_Witness ==
    /\ AveragePooled /\ ThreeByThree
    /\ probe.after.data_type = NEURAX_DATA_FLOAT32
    /\ Cardinality(WindowCells(0, 0)) = 4
    /\ At(probe.after, 0, 0, 0, 0) = CellMean(WindowCells(0, 0), 0, 0)

\* C12: after a successful neurax_pooling every output element holds the
\* maximum (max pooling) or the mean (average pooling) of the input values
\* of its channel inside its window, saturated to the output's type.
C12_PoolFormula ==
    PoolSucceeded =>
        \A p \in OutputPositions :
            /\ WindowCells(p[2], p[3]) # {}
            /\ Saturated(At(probe.after, p[1], p[2], p[3], p[4]),
                         IF probe.config.pool_type = NEURAX_POOL_MAX
                         THEN CellMax(WindowCells(p[2], p[3]), p[1], p[4])
                         ELSE CellMean(WindowCells(p[2], p[3]), p[1], p[4]),
                         probe.after.data_type)

\* The window fits the input on both axes.
WindowFits ==
    /\ probe.config.pool_width <= probe.input.width
    /\ probe.config.pool_height <= probe.input.height

\* A successful max pooling with a window wider than the input: output
\* position [0, 0, 1, 0] has no input cell in its window and holds the
\* saturated -FLT_MAX the scan started from.
C12_Witness ==
    /\ PoolSucceeded /\ ~WindowFits
    /\ probe.config.pool_type = NEURAX_POOL_MAX
    /\ probe.after.data_type = NEURAX_DATA_FLOAT32
    /\ probe.after.width > 1
    /\ WindowCells(0, 1) = {}
    /\ At(probe.after, 0, 0, 1, 0) = MinusFltMax

(***************************************************************************)
(* Contents: neurax_activation on an emulated device, for inputs of three  *)
(* element types, outputs of the input's shape and of shapes that differ   *)
(* from it in one dimension or more, and the selectors ReLU, linear and    *)
(* one outside the enumeration.                                            *)
(***************************************************************************)
\* A selector outside neurax_activation_t.
UnknownActivation == NEURAX_ACTIVATION_LINEAR + 4

ActSelectors ==
    {NEURAX_ACTIVATION_RELU, NEURAX_ACTIVATION_LINEAR, UnknownActivation}

\* -1.5, 2.75, 0 and 257.5 as float32; negative and positive int8; uint8.
ActInputs ==
    {Tensor(2, 2, 1, 1, NEURAX_DATA_FLOAT32, <<-6, 11, 0, 1030>>),
     Tensor(2, 2, 1, 1, NEURAX_DATA_INT8, <<-128, -3, 0, 127>>),
     Tensor(2, 2, 1, 1, NEURAX_DATA_UINT8, <<0, 1, 200, 255>>)}

\* Width, height, channels and batch size of the outputs drawn: the shape
\* of the inputs first.
ActOutputShapes ==
    {<<2, 2, 1, 1>>, <<4, 1, 1, 1>>, <<1, 4, 1, 1>>, <<2, 2, 2, 1>>,
     <<2, 2, 1, 2>>, <<2, 1, 2, 1>>}

ActInit ==
    /\ DeviceInit
    /\ probe \in
         {[kind |-> "act", done |-> FALSE, input |-> input,
           activation |-> activation,
           output |-> Filled(s[1], s[2], s[3], s[4], out_type, 7),
           after |-> NullTensor, ret |-> PENDING, junk |-> 0] :
             input \in ActInputs, activation \in ActSelectors,
             s \in ActOutputShapes,
             out_type \in {NEURAX_DATA_FLOAT32, NEURAX_DATA_UINT8,
                           NEURAX_DATA_INT8}}

\* neurax_activation(device, input, activation, output).
ActCall(junk) ==
    /\ probe.kind = "act" /\ ~probe.done
    /\ \E r \in {neurax_activation(FALSE, EmulatedDevice, IdleBus, probe.input,
                                   probe.activation, probe.output, junk)} :
           probe' = [probe EXCEPT !.done = TRUE, !.ret = r.ret,
                                  !.after = r.output, !.junk = junk]
    /\ UNCHANGED devVars

ActNext == \E junk \in JunkValues : ActCall(junk)

ActSpec == ActInit /\ [][ActNext]_vars

\* Input and output agree in width, height, channels and batch size.
SameDims ==
    /\ probe.input.width = probe.output.width
    /\ probe.input.height = probe.output.height
    /\ probe.input.channels = probe.output.channels
    /\ probe.input.batch_size = probe.output.batch_size

\* f: max(0, x) for ReLU, the identity for every other selector drawn.
ActFormula(x) ==
    IF probe.activation = NEURAX_ACTIVATION_RELU /\ x < 0 THEN 0 ELSE x

MaxTracked == 4

\* A neurax_data_type_t outside the enumeration.
UnknownType == NEURAX_DATA_FLOAT32 + 1

\* neurax_tensor_create(width, height, channels, batch_size, data_type,
\* &tensor): alloc_t and alloc_data say whether the two calloc calls give
\* memory (calloc(1, 0) may give NULL or a block of no bytes).  The result
\* is the return value, *tensor (NULL, as the caller left it, when nothing
\* is stored) and the number of bytes of the storage.
neurax_tensor_create(width, height, channels, batch_size, data_type, tensor_null, alloc_t, alloc_data) ==
    LET none == [ret |-> NEURAX_ERROR_INVALID_PARAM, tensor |-> NullTensor,
                 storage |-> 0]
        elements == U32Mul(U32Mul(U32Mul(W(width), W(height)), W(channels)),
                           W(batch_size))
        data_size == SizeMulSmall(elements, neurax_get_element_size(data_type))
        followed == ToNat(elements) <= MaxTracked
    IN  IF tensor_null \/ width = 0 \/ height = 0 \/ channels = 0
           \/ batch_size = 0
        THEN none
        ELSE IF ~alloc_t
        THEN [none EXCEPT !.ret = NEURAX_ERROR_MEMORY_ALLOCATION]
        ELSE IF data_type \notin DataTypes
        THEN none
        ELSE IF ~alloc_data
        THEN [none EXCEPT !.ret = NEURAX_ERROR_MEMORY_ALLOCATION]
        ELSE [ret |-> NEURAX_SUCCESS,
              tensor |->
                  [null |-> FALSE, has_data |-> TRUE, tracked |-> followed,
                   width |-> width, height |-> height, channels |-> channels,
                   batch_size |-> batch_size, data_type |-> data_type,
                   data_size |-> ToNat(data_size),
                   data |-> IF followed
                            THEN [i \in 1 .. ToNat(elements) |-> 0]
                            ELSE <<>>],
              storage |-> ToNat(data_size)]

\* A set_data that copies what fits of an oversized input.
neurax_tensor_set_data_truncating(tensor, data_null, data, size) ==
    IF tensor.null \/ data_null
    THEN [ret |-> NEURAX_ERROR_INVALID_PARAM, tensor |-> tensor]
    ELSE [ret |-> NEURAX_SUCCESS,
          tensor |-> [tensor EXCEPT !.data =
                         [i \in 1 .. Len(@) |-> IF i <= size THEN data[i] ELSE @[i]]]]

\* neurax_tensor_set_data(tensor, data, size) for a tensor of one-byte
\* elements: the tensor afterwards.
neurax_tensor_set_data(tensor, data_null, data, size) ==
    IF tensor.null \/ data_null
    THEN [ret |-> NEURAX_ERROR_INVALID_PARAM, tensor |-> tensor]
    ELSE IF size > tensor.data_size
    THEN [ret |-> NEURAX_ERROR_BUFFER_OVERFLOW, tensor |-> tensor]
    ELSE [ret |-> NEURAX_SUCCESS,
          tensor |-> [tensor EXCEPT !.data =
                         [i \in 1 .. Len(@) |-> IF i <= size THEN data[i] ELSE @[i]]]]

\* neurax_tensor_get_data(tensor, data, size): the caller's buffer
\* afterwards.
neurax_tensor_get_data(tensor, data_null, data, size) ==
    IF tensor.null \/ data_null
    THEN [ret |-> NEURAX_ERROR_INVALID_PARAM, data |-> data]
    ELSE IF size > tensor.data_size
    THEN [ret |-> NEURAX_ERROR_BUFFER_OVERFLOW, data |-> data]
    ELSE [ret |-> NEURAX_SUCCESS,
          data |-> [i \in 1 .. Len(data) |->
                       IF i <= size THEN tensor.data[i] ELSE data[i]]]

\* The dimensions drawn: 0, small ones, 2^16 and 2^16 + 1.
CreateDims == {0, 1, 2, B16, B16 + 1}

\* The caller's buffers: the bytes handed to set_data and the buffer
\* handed to get_data, each two bytes longer than the largest tensor
\* followed.
SourceBytes == [i \in 1 .. MaxTracked + 2 |-> 10 + i]

CallerBuffer == [i \in 1 .. MaxTracked + 2 |-> 90]

NotMeasured == <<B16, B16>>

NotDone == [size |-> 0, data_null |-> FALSE, ret |-> PENDING]

TensorInit ==
    /\ DeviceInit
    /\ probe \in
         {[kind |-> "tensor", step |-> "args",
           width |-> d[1], height |-> d[2], channels |-> d[3],
           batch_size |-> d[4], data_type |-> type, tensor_null |-> tn,
           ret |-> PENDING, tensor |-> NullTensor, storage |-> 0,
           total |-> NotMeasured, tamper |-> 0, valid |-> PENDING,
           set |-> NotDone, before |-> NullTensor,
           got |-> NotDone, buffer |-> CallerBuffer] :
             d \in CreateDims \X CreateDims \X CreateDims \X CreateDims,
             type \in DataTypes \cup {UnknownType}, tn \in BOOLEAN}

TensorCreate(alloc_t, alloc_data) ==
    /\ probe.kind = "tensor" /\ probe.step = "args"
    /\ \E r \in {neurax_tensor_create(probe.width, probe.height,
                     probe.channels, probe.batch_size, probe.data_type,
                     probe.tensor_null, alloc_t, alloc_data)} :
           probe' = [probe EXCEPT !.step = "created", !.ret = r.ret,
                                  !.tensor = r.tensor, !.storage = r.storage]
    /\ UNCHANGED devVars

\* neurax_tensor_total_elements(tensor), tensor being NULL when the
\* creation stored none.
TensorTotal ==
    /\ probe.kind = "tensor" /\ probe.step = "created"
    /\ probe' = [probe EXCEPT !.step = "measured",
                     !.total = neurax_tensor_total_elements(probe.tensor)]
    /\ UNCHANGED devVars

\* neurax_validate_tensor(tensor) on the tensor created, with its
\* data_size as created or changed by tamper bytes.
TensorValidate(tamper) ==
    /\ probe.kind = "tensor" /\ probe.step = "created"
    /\ probe.ret = NEURAX_SUCCESS
    /\ probe' = [probe EXCEPT !.step = "validated", !.tamper = tamper,
                     !.valid = neurax_validate_tensor(
                         [probe.tensor EXCEPT !.data_size = @ + tamper])]
    /\ UNCHANGED devVars

\* Whether the bytes of the tensor created are followed.
BytesFollowed ==
    /\ probe.ret = NEURAX_SUCCESS /\ probe.tensor.tracked
    /\ probe.tensor.data_type = NEURAX_DATA_UINT8

TensorSetData(data_null, size) ==
    /\ probe.kind = "tensor" /\ probe.step = "created" /\ BytesFollowed
    /\ \E r \in {neurax_tensor_set_data(probe.tensor, data_null, SourceBytes,
                                        size)} :
           probe' = [probe EXCEPT !.step = "set", !.before = probe.tensor,
                                  !.tensor = r.tensor,
                                  !.set = [size |-> size, data_null |-> data_null,
                                            ret |-> r.ret]]
    /\ UNCHANGED devVars

TensorGetData(data_null, size) ==
    /\ probe.kind = "tensor" /\ probe.step \in {"created", "set"}
    /\ BytesFollowed
    /\ \E r \in {neurax_tensor_get_data(probe.tensor, data_null, CallerBuffer,
                                        size)} :
           probe' = [probe EXCEPT !.step = "got", !.buffer = r.data,
                                  !.got = [size |-> size, data_null |-> data_null,
                                            ret |-> r.ret]]
    /\ UNCHANGED devVars

TensorNext ==
    \/ \E alloc_t, alloc_data \in BOOLEAN : TensorCreate(alloc_t, alloc_data)
    \/ TensorTotal
    \/ \E tamper \in {0, 1} : TensorValidate(tamper)
    \/ \E data_null \in BOOLEAN, size \in 0 .. MaxTracked + 2 :
           TensorSetData(data_null, size)
    \/ \E data_null \in BOOLEAN, size \in 0 .. MaxTracked + 2 :
           TensorGetData(data_null, size)

TensorSpec == TensorInit /\ [][TensorNext]_vars

\* a * b in the integers, or IntCap when the product is IntCap or more.
IntCap == BigStride

CapMul(a, b) ==
    IF a = 0 \/ b = 0 THEN 0
    ELSE IF a > IntCap \div b THEN IntCap
    ELSE a * b

\* width * height * channels * batch_size of the arguments, in the
\* integers (IntCap when beyond).
TrueElements ==
    CapMul(CapMul(CapMul(probe.width, probe.height), probe.channels),
           probe.batch_size)

TrueBytes == CapMul(TrueElements, neurax_get_element_size(probe.data_type))

Created ==
    probe.kind = "tensor" /\ probe.step # "args" /\ probe.ret = NEURAX_SUCCESS

\* C14: every tensor neurax_tensor_create returns has data_size equal to
\* the true product width * height * channels * batch_size * element size
\* and storage of that many bytes, and neurax_validate_tensor returns
\* InvalidParam for a tensor whose data_size differs from that product.
C14_ByteLength ==
    Created =>
        /\ TrueBytes < IntCap
        /\ probe.tensor.data_size = TrueBytes
        /\ probe.storage = TrueBytes
        /\ (probe.step = "validated"
            /\ probe.tensor.data_size + probe.tamper # TrueBytes)
               => probe.valid = NEURAX_ERROR_INVALID_PARAM

\* A tensor of 65536 x 65537 one-byte elements was created with a
\* data_size of 65536 bytes and passed neurax_validate_tensor.
C14_Witness ==
    /\ Created /\ probe.step = "validated" /\ probe.tamper = 0
    /\ probe.width = B16 /\ probe.height = B16 + 1
    /\ probe.channels = 1 /\ probe.batch_size = 1
    /\ probe.data_type = NEURAX_DATA_UINT8
    /\ probe.tensor.data_size = B16
    /\ probe.valid = NEURAX_SUCCESS

\* C15: neurax_tensor_create returns InvalidParam and stores no tensor
\* when a dimension is zero or the element type is unknown; for every
\* tensor created neurax_tensor_total_elements returns width * height *
\* channels * batch_size, and it returns 0 for a null tensor.
C15_CreateAndCount ==
    (probe.kind = "tensor" /\ probe.step # "args") =>
        /\ (\/ 0 \in {probe.width, probe.height, probe.channels,
                      probe.batch_size}
            \/ probe.data_type \notin DataTypes)
               => (probe.ret = NEURAX_ERROR_INVALID_PARAM /\ probe.tensor.null)
        /\ (Created /\ probe.step = "measured")
               => (TrueElements < IntCap /\ probe.total = W(TrueElements))
        /\ (probe.step = "measured" /\ probe.tensor.null)
               => probe.total = W(0)

\* A tensor of 65536 x 65537 x 1 x 1 elements was created and
\* neurax_tensor_total_elements gave 65536 for it.
C15_Witness ==
    /\ Created /\ probe.step = "measured"
    /\ probe.width = B16 /\ probe.height = B16 + 1
    /\ probe.channels = 1 /\ probe.batch_size = 1
    /\ probe.total = W(B16)

\* The first n entries of a sequence.
Prefix(s, n) == [i \in 1 .. n |-> s[i]]

\* The entries of a sequence after the first n.
Rest(s, n) == [i \in 1 .. Len(s) - n |-> s[n + i]]

\* C16: with non-null arguments, neurax_tensor_set_data with a size above
\* the tensor's data_size returns BufferOverflow and leaves the storage;
\* with a size up to it, it copies the first size bytes and leaves the
\* others.  neurax_tensor_get_data mirrors this on the caller's buffer,
\* and get_data after a set_data of the whole length returns the bytes set.
C16_SetGetData ==
    (probe.kind = "tensor") =>
        /\ (probe.step \in {"set", "got"} /\ ~probe.set.data_null
            /\ probe.set.ret # PENDING) =>
               IF probe.set.size > probe.before.data_size
               THEN /\ probe.set.ret = NEURAX_ERROR_BUFFER_OVERFLOW
                    /\ probe.tensor = probe.before
               ELSE /\ probe.set.ret = NEURAX_SUCCESS
                    /\ Prefix(probe.tensor.data, probe.set.size)
                           = Prefix(SourceBytes, probe.set.size)
                    /\ Rest(probe.tensor.data, probe.set.size)
                           = Rest(probe.before.data, probe.set.size)
        /\ (probe.step = "got" /\ ~probe.got.data_null) =>
               IF probe.got.size > probe.tensor.data_size
               THEN /\ probe.got.ret = NEURAX_ERROR_BUFFER_OVERFLOW
                    /\ probe.buffer = CallerBuffer
               ELSE /\ probe.got.ret = NEURAX_SUCCESS
                    /\ Prefix(probe.buffer, probe.got.size)
                           = Prefix(probe.tensor.data, probe.got.size)
                    /\ Rest(probe.buffer, probe.got.size)
                           = Rest(CallerBuffer, probe.got.size)
        /\ (probe.step = "got" /\ probe.set.ret = NEURAX_SUCCESS
            /\ probe.got.ret = NEURAX_SUCCESS
            /\ probe.set.size = probe.tensor.data_size
            /\ probe.got.size = probe.tensor.data_size) =>
               Prefix(probe.buffer, probe.got.size)
                   = Prefix(SourceBytes, probe.got.size)

\* A tensor of 4 bytes was set whole and read back whole: the caller's
\* buffer holds the 4 bytes set, and its other bytes are as they were.
C16_Witness ==
    /\ probe.kind = "tensor" /\ probe.step = "got"
    /\ probe.tensor.data_size = 4
    /\ probe.set.ret = NEURAX_SUCCESS /\ probe.set.size = 4
    /\ probe.got.ret = NEURAX_SUCCESS /\ probe.got.size = 4
    /\ Prefix(probe.buffer, 4) = Prefix(SourceBytes, 4)
    /\ probe.buffer[5] = CallerBuffer[5]

(***************************************************************************)
(* Configurations: neurax_validate_conv_config and                         *)
(* neurax_validate_pool_config on fields at, inside and beyond their       *)
(* limits, and neurax_pooling with the same pooling configurations on an   *)
(* emulated and on a hardware-bound device.                                *)
(***************************************************************************)
\* Kernel sizes, strides, channel counts and selectors around the limits.
KernelSizes == {0, 1, 11, 12, 13}

ConvStrides == {0, 1, 8, 9}

ChannelCounts == {0, 1}

ConvSelectors == NEURAX_ACTIVATION_RELU .. NEURAX_ACTIVATION_LINEAR + 1

PoolSizes == {0, 1, 2, 8, 9}

PoolConfigStrides == {0, 1, BigStride}

PoolSelectors == NEURAX_POOL_MAX .. NEURAX_POOL_AVERAGE + 1

ConvConfigsDrawn ==
    {[ConvConfig(k[1], s[1], 0, ch[1], ch[2], FALSE, activation)
          EXCEPT !.kernel_height = k[2], !.stride_y = s[2], !.null = null] :
        k \in KernelSizes \X KernelSizes, s \in ConvStrides \X ConvStrides,
        ch \in ChannelCounts \X ChannelCounts, activation \in ConvSelectors,
        null \in BOOLEAN}

PoolConfigsDrawn ==
    {[PoolConfig(p[1], s[1], type)
          EXCEPT !.pool_height = p[2], !.stride_y = s[2], !.null = null] :
        p \in PoolSizes \X PoolSizes,
        s \in PoolConfigStrides \X PoolConfigStrides,
        type \in PoolSelectors, null \in BOOLEAN}

\* An initialized device bound to hardware, and its mapped register window.
BoundDevice ==
    [neurax_device_open(NewDevice(TRUE), TRUE, FALSE, TRUE).device
         EXCEPT !.initialized = TRUE]

MappedBus == [IdleBus EXCEPT !.mapped = TRUE]

ConfigInit ==
    /\ DeviceInit
    /\ probe \in
         {[kind |-> "conv_config", step |-> "args", config |-> c,
           bound |-> FALSE, ret |-> PENDING, traffic |-> <<>>,
           output |-> NullTensor, after |-> NullTensor] :
             c \in ConvConfigsDrawn}
         \cup
         {[kind |-> "pool_config", step |-> "args", config |-> c,
           bound |-> bound, ret |-> PENDING, traffic |-> <<>>,
           output |-> Filled(1, 1, 1, 1, NEURAX_DATA_FLOAT32, 7 * FRAC),
           after |-> NullTensor] :
             c \in PoolConfigsDrawn, bound \in BOOLEAN}

ValidateConvConfig ==
    /\ probe.kind = "conv_config" /\ probe.step = "args"
    /\ probe' = [probe EXCEPT !.step = "validated",
                     !.ret = neurax_validate_conv_config(probe.config)]
    /\ UNCHANGED devVars

ValidatePoolConfig ==
    /\ probe.kind = "pool_config" /\ probe.step = "args" /\ ~probe.bound
    /\ probe' = [probe EXCEPT !.step = "validated",
                     !.ret = neurax_validate_pool_config(probe.config)]
    /\ UNCHANGED devVars

\* neurax_pooling(device, input, config, output) with a valid 2x2 input
\* and a valid 1x1 output, up to its return or to the wait of the
\* hardware path.
PoolingWithConfig ==
    /\ probe.kind = "pool_config" /\ probe.step = "args"
    /\ \E r \in {neurax_pooling(FALSE,
                     IF probe.bound THEN BoundDevice ELSE EmulatedDevice,
                     IF probe.bound THEN MappedBus ELSE IdleBus,
                     InputF, probe.config, probe.output, 0)} :
           probe' = [probe EXCEPT !.step = "called", !.ret = r.ret,
                                  !.traffic = r.bus.traffic,
                                  !.after = r.output]
    /\ UNCHANGED devVars

ConfigNext == ValidateConvConfig \/ ValidatePoolConfig \/ PoolingWithConfig

ConfigSpec == ConfigInit /\ [][ConfigNext]_vars

\* C17: neurax_validate_conv_config returns Success exactly when the
\* kernel width and height are in 1..11, the strides in 1..8, both channel
\* counts at least 1 and the selector one of the four known; InvalidParam
\* otherwise.
C17_ConvConfigLimits ==
    (probe.kind = "conv_config" /\ probe.step = "validated"
     /\ ~probe.config.null) =>
        LET c == probe.config
            ok == /\ c.kernel_width \in 1 .. 11 /\ c.kernel_height \in 1 .. 11
                  /\ c.stride_x \in 1 .. 8 /\ c.stride_y \in 1 .. 8
                  /\ c.input_channels >= 1 /\ c.output_channels >= 1
                  /\ c.activation \in {NEURAX_ACTIVATION_RELU,
                         NEURAX_ACTIVATION_TANH, NEURAX_ACTIVATION_SIGMOID,
                         NEURAX_ACTIVATION_LINEAR}
        IN  probe.ret = IF ok THEN NEURAX_SUCCESS
                        ELSE NEURAX_ERROR_INVALID_PARAM

\* The configuration with an 11x11 kernel and strides of 8 was accepted.
C17_Witness ==
    /\ probe.kind = "conv_config" /\ probe.step = "validated"
    /\ probe.config.kernel_width = 11 /\ probe.config.kernel_height = 11
    /\ probe.config.stride_x = 8 /\ probe.config.stride_y = 8
    /\ probe.ret = NEURAX_SUCCESS

\* The pooling configuration is one the validation is to reject.
BadPoolConfig ==
    LET c == probe.config
    IN  \/ c.pool_width = 0 \/ c.pool_height = 0
        \/ c.pool_width > 8 \/ c.pool_height > 8
        \/ c.stride_x = 0 \/ c.stride_y = 0
        \/ c.pool_type \notin {NEURAX_POOL_MAX, NEURAX_POOL_AVERAGE}

\* C18: neurax_validate_pool_config returns InvalidParam exactly when a
\* window side is 0 or above 8, a stride is 0 or the selector is neither
\* max nor average, and Success otherwise; neurax_pooling with such a
\* configuration returns InvalidParam without a register write, a kernel
\* run or a change of the output.
C18_PoolConfigLimits ==
    (probe.kind = "pool_config" /\ ~probe.config.null) =>
        /\ probe.step = "validated" =>
               probe.ret = IF BadPoolConfig THEN NEURAX_ERROR_INVALID_PARAM
                           ELSE NEURAX_SUCCESS
        /\ (probe.step = "called" /\ BadPoolConfig) =>
               /\ probe.ret = NEURAX_ERROR_INVALID_PARAM
               /\ probe.traffic = <<>>
               /\ probe.after = probe.output

\* neurax_pooling on a hardware-bound device with a 9x2 window returned
\* InvalidParam with no register traffic.
C18_Witness ==
    /\ probe.kind = "pool_config" /\ probe.step = "called" /\ probe.bound
    /\ ~probe.config.null
    /\ probe.config.pool_width = 9 /\ probe.config.pool_height = 2
    /\ probe.config.stride_x = 1 /\ probe.config.stride_y = 1
    /\ probe.config.pool_type = NEURAX_POOL_MAX
    /\ probe.ret = NEURAX_ERROR_INVALID_PARAM
    /\ probe.traffic = <<>>

(***************************************************************************)
(* neurax_perf.c: the performance counter.  The two statics start_time and *)
(* profiling_active, one neurax_perf_stats_t of the caller, the wall clock *)
(* in milliseconds, and the calls made so far with what they returned.     *)
(***************************************************************************)
\* Calls of neurax_perf_start and neurax_perf_end in one run.
MaxPerfCalls == 4

\* Milliseconds the wall clock advances over one run.
MaxClock == 3

ZeroStats ==
    [total_time_ms |-> 0, hw_time_ms |-> 0, data_transfer_time_ms |-> 0,
     num_operations |-> 0]

\* static struct timeval start_time; static bool profiling_active = false;
PerfStatics == [start_time |-> 0, profiling_active |-> FALSE]

\* neurax_perf_start(stats) at time now.
neurax_perf_start(statics, stats_null, stats, now) ==
    IF stats_null
    THEN [ret |-> NEURAX_ERROR_INVALID_PARAM, stats |-> stats,
          statics |-> statics]
    ELSE [ret |-> NEURAX_SUCCESS, stats |-> ZeroStats,
          statics |-> [start_time |-> now, profiling_active |-> TRUE]]

\* An end that leaves the measurement active.
neurax_perf_end_sticky(statics, stats_null, stats, now) ==
    IF stats_null \/ ~statics.profiling_active
    THEN [ret |-> NEURAX_ERROR_INVALID_PARAM, stats |-> stats,
          statics |-> statics]
    ELSE [ret |-> NEURAX_SUCCESS,
          stats |-> [stats EXCEPT !.total_time_ms = now - statics.start_time],
          statics |-> statics]

\* neurax_perf_end(stats) at time now.
neurax_perf_end(statics, stats_null, stats, now) ==
    IF stats_null \/ ~statics.profiling_active
    THEN [ret |-> NEURAX_ERROR_INVALID_PARAM, stats |-> stats,
          statics |-> statics]
    ELSE [ret |-> NEURAX_SUCCESS,
          stats |-> [stats EXCEPT !.total_time_ms = now - statics.start_time],
          statics |-> [statics EXCEPT !.profiling_active = FALSE]]

\* What the caller's stats hold before the first call: zeroes, or whatever
\* the memory held.
StaleStats ==
    {ZeroStats,
     [total_time_ms |-> 2, hw_time_ms |-> 1, data_transfer_time_ms |-> 1,
      num_operations |-> 2]}

PerfInit ==
    /\ DeviceInit
    /\ \E stats \in StaleStats :
           probe = [kind |-> "perf", statics |-> PerfStatics, stats |-> stats,
                    clock |-> 0, log |-> <<>>]

PerfLogged(op, stats_null, r) ==
    probe' = [probe EXCEPT !.statics = r.statics, !.stats = r.stats,
                           !.log = Append(@, [op |-> op, null |-> stats_null,
                                              ret |-> r.ret, at |-> probe.clock,
                                              stats |-> r.stats])]

PerfStart(stats_null) ==
    /\ probe.kind = "perf" /\ Len(probe.log) < MaxPerfCalls
    /\ PerfLogged("start", stats_null,
                  neurax_perf_start(probe.statics, stats_null, probe.stats,
                                    probe.clock))
    /\ UNCHANGED devVars

PerfEnd(stats_null) ==
    /\ probe.kind = "perf" /\ Len(probe.log) < MaxPerfCalls
    /\ PerfLogged("end", stats_null,
                  neurax_perf_end(probe.statics, stats_null, probe.stats,
                                  probe.clock))
    /\ UNCHANGED devVars

\* A millisecond passes.
PerfTick ==
    /\ probe.kind = "perf" /\ probe.clock < MaxClock
    /\ probe' = [probe EXCEPT !.clock = @ + 1]
    /\ UNCHANGED devVars

\* The caller counts an operation it ran into its stats.
PerfCount ==
    /\ probe.kind = "perf" /\ probe.stats.num_operations = 0
    /\ probe' = [probe EXCEPT !.stats.num_operations = 1,
                              !.stats.hw_time_ms = 1]
    /\ UNCHANGED devVars

PerfNext ==
    \/ \E stats_null \in BOOLEAN : PerfStart(stats_null)
    \/ \E stats_null \in BOOLEAN : PerfEnd(stats_null)
    \/ PerfTick
    \/ PerfCount

PerfSpec == PerfInit /\ [][PerfNext]_vars

\* The calls of the log, up to the n-th, that returned Success.
Succeeded(op, n) ==
    {i \in 1 .. n : probe.log[i].op = op /\ probe.log[i].ret = NEURAX_SUCCESS}

Latest(calls) == CHOOSE i \in calls : \A j \in calls : j <= i

\* Before the n-th call of the log a neurax_perf_start has succeeded and
\* no neurax_perf_end has succeeded since.
StartOpen(n) ==
    /\ Succeeded("start", n - 1) # {}
    /\ \A e \in Succeeded("end", n - 1) :
           e < Latest(Succeeded("start", n - 1))

\* C22: with non-null stats, neurax_perf_end returns InvalidParam when no
\* neurax_perf_start has succeeded since the last successful
\* neurax_perf_end (or ever) and Success otherwise, storing the time since
\* the latest start and ending the measurement; neurax_perf_start always
\* succeeds, zeroes the stats and restarts the window; the measurement is
\* active exactly while a start is open.
C22_PerfWindow ==
    probe.kind = "perf" =>
        /\ \A n \in 1 .. Len(probe.log) :
               LET c == probe.log[n]
               IN  /\ (c.op = "end" /\ ~c.null) =>
                          /\ c.ret = IF StartOpen(n) THEN NEURAX_SUCCESS
                                     ELSE NEURAX_ERROR_INVALID_PARAM
                          /\ c.ret = NEURAX_SUCCESS =>
                                 c.stats.total_time_ms =
                                     c.at - probe.log[Latest(Succeeded("start", n - 1))].at
                   /\ (c.op = "start" /\ ~c.null) =>
                          /\ c.ret = NEURAX_SUCCESS
                          /\ c.stats = ZeroStats
        /\ probe.statics.profiling_active = StartOpen(Len(probe.log) + 1)
        /\ probe.statics.profiling_active =>
               probe.statics.start_time =
                   probe.log[Latest(Succeeded("start", Len(probe.log)))].at

\* start, a nested start a millisecond later, an end after one more, and a
\* second end: the first end measured from the nested start and the second
\* end returned InvalidParam.
C22_Witness ==
    /\ probe.kind = "perf" /\ Len(probe.log) = 4
    /\ \A n \in 1 .. 4 : ~probe.log[n].null
    /\ probe.log[1].op = "start" /\ probe.log[1].at = 0
    /\ probe.log[2].op = "start" /\ probe.log[2].at = 1
    /\ probe.log[3].op = "end" /\ probe.log[3].at = 2
    /\ probe.log[3].ret = NEURAX_SUCCESS
    /\ probe.log[3].stats.total_time_ms = 1
    /\ probe.log[4].op = "end"
    /\ probe.log[4].ret = NEURAX_ERROR_INVALID_PARAM

(***************************************************************************)
(* The element indices of the convolution kernel (ConvSpec)                *)
(***************************************************************************)
\* Every index of the set lies inside the storage of the tensor.
Inside(indices, tensor) == \A i \in indices : i < ElementCount(tensor)

\* C23: a neurax_conv2d that passed validation and the shape check reads
\* the input, the weights and the bias and writes the output only at
\* element indices below the element count of the tensor.
C23_ConvInBounds ==
    (probe.kind = "conv" /\ probe.done /\ probe.ret = NEURAX_SUCCESS) =>
        /\ Inside(ConvInputIndices(probe.input, probe.config, probe.output),
                  probe.input)
        /\ Inside(ConvWeightIndices(probe.input, probe.weights, probe.config,
                                    probe.output), probe.weights)
        /\ Inside(ConvBiasIndices(probe.input, probe.bias, probe.config,
                                  probe.output), probe.bias)
        /\ Inside(ConvOutputIndices(probe.input, probe.config, probe.output),
                  probe.output)

\* A successful 1x1 convolution whose configuration names two output
\* channels for an output tensor of one: the kernel wrote element 4 and up
\* of a 2x2x1 output.
C23_Witness ==
    /\ probe.kind = "conv" /\ probe.done /\ probe.ret = NEURAX_SUCCESS
    /\ probe.config.kernel_width = 1 /\ probe.config.stride_x = 1
    /\ probe.config.input_channels = 1 /\ probe.input.channels = 1
    /\ probe.config.output_channels = 2 /\ probe.output.channels = 1
    /\ ElementCount(probe.output) = 4
    /\ 4 \in ConvOutputIndices(probe.input, probe.config, probe.output)

(***************************************************************************)
(* The element indices of the pooling kernel: neurax_pooling on an         *)
(* emulated device for every combination of the channel counts and batch   *)
(* sizes of a 2x2 input and of an output of the shape the kernel expects.  *)
(***************************************************************************)
\* Batch sizes drawn for the input and for the output.
MaxBatch == 2

PoolIndexInit ==
    /\ DeviceInit
    /\ probe \in
         {[kind |-> "pool", done |-> FALSE,
           input |-> Ramp(2, 2, in_ch, in_b, -1, 4),
           config |-> PoolConfig(window, stride, type),
           output |-> Filled((2 - window) \div stride + 1,
                             (2 - window) \div stride + 1,
                             out_ch, out_b, NEURAX_DATA_FLOAT32, 7),
           after |-> NullTensor, ret |-> PENDING, junk |-> 0] :
             in_ch \in 1 .. MaxChannels, in_b \in 1 .. MaxBatch,
             out_ch \in 1 .. MaxChannels, out_b \in 1 .. MaxBatch,
             window \in PoolWindows, stride \in {1, 2},
             type \in {NEURAX_POOL_MAX, NEURAX_POOL_AVERAGE}}

PoolIndexSpec == PoolIndexInit /\ [][PoolNext]_vars

\* The element indices neurax_set_tensor_value writes in the output: the
\* loops of neurax_cpu_pooling run over the input's batches and channels
\* and over the positions of the output.
PoolOutputIndices(input, output) ==
    {TensorIndex(output, p[1], p[3], p[4], p[2]) : p \in
        (0 .. input.batch_size - 1) \X (0 .. input.channels - 1)
            \X (0 .. output.height - 1) \X (0 .. output.width - 1)}

\* C24: a neurax_pooling that passed validation and the shape check writes
\* the output only at element indices below the element count of the
\* output, whatever the channel counts and batch sizes of the two tensors.
C24_PoolInBounds ==
    (probe.kind = "pool" /\ probe.done /\ probe.ret = NEURAX_SUCCESS) =>
        Inside(PoolOutputIndices(probe.input, probe.output), probe.output)

\* A successful 2x2 pooling of a two-channel input into a one-channel 1x1
\* output: the kernel wrote element 1 of a one-element output.
C24_Witness ==
    /\ probe.kind = "pool" /\ probe.done /\ probe.ret = NEURAX_SUCCESS
    /\ probe.input.channels = 2 /\ probe.input.batch_size = 1
    /\ probe.output.channels = 1 /\ probe.output.batch_size = 1
    /\ probe.config.pool_width = 2
    /\ ElementCount(probe.output) = 1
    /\ 1 \in PoolOutputIndices(probe.input, probe.output)

(***************************************************************************)
(* demo/image_blur/image_blur_demo.c: main from neurax_init to its return, *)
(* one step per call it makes.  The heap holds, for each tensor            *)
(* neurax_tensor_create has returned, how often neurax_tensor_destroy has  *)
(* been called on it; a pointer is 0 (NULL) or the number of its tensor.   *)
(***************************************************************************)
\* Channels of the image: 24-bit and 32-bit BMP files.
ImageChannels == {3, 4}

\* Widths a BMP header may hold; with 0 neurax_tensor_create fails.
ImageWidths == {0, 2, 3}

\* neurax_tensor_create(..., &pointer) in the demo: the heap and the
\* pointer after the call.
DemoCreate(heap, pointer, r) ==
    IF r.ret = NEURAX_SUCCESS
    THEN [heap |-> Append(heap, 0), pointer |-> Len(heap) + 1, ret |-> r.ret]
    ELSE [heap |-> heap, pointer |-> pointer, ret |-> r.ret]

\* neurax_tensor_destroy(pointer): free(tensor->data); free(tensor).
DemoDestroy(heap, pointer) ==
    IF pointer = 0 THEN heap ELSE [heap EXCEPT ![pointer] = @ + 1]

\* main after its argument parsing, before neurax_init.
DemoInit ==
    /\ DeviceInit
    /\ probe = [kind |-> "demo", pc |-> "init", heap |-> <<>>,
                input_tensor |-> 0, blur_kernel |-> 0, output_tensor |-> 0,
                width |-> 0, channels |-> 0, c |-> 0, result |-> 0]

\* neurax_init(&config, &device)
DemoOpen(alloc_ok) ==
    /\ probe.kind = "demo" /\ probe.pc = "init"
    /\ probe' = IF alloc_ok
                THEN [probe EXCEPT !.pc = "load"]
                ELSE [probe EXCEPT !.pc = "exit", !.result = 1]
    /\ UNCHANGED devVars

\* load_bmp_image(input_file, &input_tensor).  read says how far the file
\* can be read: "none" (the file or a header is missing or wrong),
\* "headers" (the pixel rows are short) or "all"; buffer_ok whether the
\* row buffer is allocated.
load_bmp_image(read, width, channels, alloc_t, alloc_data, buffer_ok) ==
    LET made == DemoCreate(probe.heap, probe.input_tensor,
                    neurax_tensor_create(width, 2, channels, 1,
                        NEURAX_DATA_FLOAT32, FALSE, alloc_t, alloc_data))
        failed == [probe EXCEPT !.pc = "cleanup", !.result = 1]
    IN  /\ probe.kind = "demo" /\ probe.pc = "load"
        /\ probe' =
             IF read = "none" THEN failed
             ELSE IF made.ret # NEURAX_SUCCESS THEN failed
             ELSE IF ~buffer_ok \/ read = "headers"
             THEN [failed EXCEPT !.heap = DemoDestroy(made.heap, made.pointer),
                                 !.input_tensor = made.pointer]
             ELSE [probe EXCEPT !.pc = "kernel", !.heap = made.heap,
                                !.input_tensor = made.pointer,
                                !.width = width, !.channels = channels]
        /\ UNCHANGED devVars

\* create_blur_kernel(&blur_kernel, kernel_size, sigma)
create_blur_kernel(alloc_t, alloc_data) ==
    LET made == DemoCreate(probe.heap, probe.blur_kernel,
                    neurax_tensor_create(3, 3, 1, 1, NEURAX_DATA_FLOAT32,
                                         FALSE, alloc_t, alloc_data))
    IN  /\ probe.kind = "demo" /\ probe.pc = "kernel"
        /\ probe' =
             IF made.ret # NEURAX_SUCCESS
             THEN [probe EXCEPT !.pc = "cleanup", !.result = 1]
             ELSE [probe EXCEPT !.pc = "blur", !.heap = made.heap,
                                !.blur_kernel = made.pointer]
        /\ UNCHANGED devVars

\* apply_blur_filter up to its loop: the creation of *output.
BlurOutput(alloc_t, alloc_data) ==
    LET made == DemoCreate(probe.heap, probe.output_tensor,
                    neurax_tensor_create(probe.width, 2, probe.channels, 1,
                        NEURAX_DATA_FLOAT32, FALSE, alloc_t, alloc_data))
    IN  /\ probe.kind = "demo" /\ probe.pc = "blur"
        /\ probe' =
             IF made.ret # NEURAX_SUCCESS
             THEN [probe EXCEPT !.pc = "cleanup", !.result = 1]
             ELSE [probe EXCEPT !.pc = "channel", !.heap = made.heap,
                                !.output_tensor = made.pointer, !.c = 0]
        /\ UNCHANGED devVars

\* One iteration of the loop of apply_blur_filter over the channels:
\* in_ok and out_ok say whether the two scratch tensors are created,
\* conv_ok whether neurax_conv2d returns Success.
BlurChannel(in_ok, out_ok, conv_ok) ==
    LET one == neurax_tensor_create(probe.width, 2, 1, 1, NEURAX_DATA_FLOAT32,
                                    FALSE, in_ok, in_ok)
        two == neurax_tensor_create(probe.width, 2, 1, 1, NEURAX_DATA_FLOAT32,
                                    FALSE, out_ok, out_ok)
        input_channel == DemoCreate(probe.heap, 0, one)
        output_channel == DemoCreate(input_channel.heap, 0, two)
        failed == [probe EXCEPT !.pc = "cleanup", !.result = 1]
    IN  /\ probe.kind = "demo" /\ probe.pc = "channel"
        /\ probe' =
             IF input_channel.ret # NEURAX_SUCCESS
             THEN [failed EXCEPT !.heap =
                       DemoDestroy(probe.heap, probe.output_tensor)]
             ELSE IF output_channel.ret # NEURAX_SUCCESS
             THEN [failed EXCEPT !.heap =
                       DemoDestroy(DemoDestroy(input_channel.heap,
                                               input_channel.pointer),
                                   probe.output_tensor)]
             ELSE IF ~conv_ok
             THEN [failed EXCEPT !.heap =
                       DemoDestroy(DemoDestroy(DemoDestroy(output_channel.heap,
                               input_channel.pointer), output_channel.pointer),
                           probe.output_tensor)]
             ELSE [probe EXCEPT
                       !.heap = DemoDestroy(DemoDestroy(output_channel.heap,
                                    input_channel.pointer), output_channel.pointer),
                       !.c = @ + 1,
                       !.pc = IF probe.c + 1 < probe.channels
                              THEN "channel" ELSE "save"]
        /\ UNCHANGED devVars

\* save_bmp_image(output_file, output_tensor)
save_bmp_image(saved) ==
    /\ probe.kind = "demo" /\ probe.pc = "save"
    /\ probe' = [probe EXCEPT !.pc = "cleanup",
                              !.result = IF saved THEN 0 ELSE 1]
    /\ UNCHANGED devVars

\* Some tensor of the heap has been destroyed more than once.
DestroyedTwice(heap) == \E t \in 1 .. Len(heap) : heap[t] > 1

\* The cleanup label of main: the three tensors that are not NULL are
\* destroyed, then the device is cleaned up and main returns.  The second
\* destroy of a tensor reads and frees released memory: the allocator
\* either traps it or lets it pass.
DemoCleanup(trapped) ==
    LET heap == DemoDestroy(DemoDestroy(DemoDestroy(probe.heap,
                    probe.input_tensor), probe.blur_kernel), probe.output_tensor)
    IN  /\ probe.kind = "demo" /\ probe.pc = "cleanup"
        /\ trapped => DestroyedTwice(heap)
        /\ probe' = [probe EXCEPT !.heap = heap,
                                  !.pc = IF trapped THEN "trap" ELSE "exit"]
        /\ UNCHANGED devVars

DemoNext ==
    \/ \E alloc_ok \in BOOLEAN : DemoOpen(alloc_ok)
    \/ \E read \in {"none", "headers", "all"}, width \in ImageWidths,
          channels \in ImageChannels, alloc_t, alloc_data, buffer_ok \in BOOLEAN :
           load_bmp_image(read, width, channels, alloc_t, alloc_data, buffer_ok)
    \/ \E alloc_t, alloc_data \in BOOLEAN : create_blur_kernel(alloc_t, alloc_data)
    \/ \E alloc_t, alloc_data \in BOOLEAN : BlurOutput(alloc_t, alloc_data)
    \/ \E in_ok, out_ok, conv_ok \in BOOLEAN : BlurChannel(in_ok, out_ok, conv_ok)
    \/ \E saved \in BOOLEAN : save_bmp_image(saved)
    \/ \E trapped \in BOOLEAN : DemoCleanup(trapped)

DemoSpec == DemoInit /\ [][DemoNext]_vars

\* C25: no tensor the demo created is destroyed more than once, and when
\* main returns every tensor it created has been destroyed.
C25_DestroyedOnce ==
    probe.kind = "demo" =>
        /\ ~DestroyedTwice(probe.heap)
        /\ probe.pc = "exit" =>
               \A t \in 1 .. Len(probe.heap) : probe.heap[t] = 1

\* main has returned after load_bmp_image failed on the pixel rows: the
\* input tensor, the only one created, has been destroyed twice.
C25_Witness ==
    /\ probe.kind = "demo" /\ probe.pc = "exit" /\ probe.result = 1
    /\ probe.heap = <<2>>
    /\ probe.input_tensor = 1 /\ probe.blur_kernel = 0 /\ probe.output_tensor = 0

(***************************************************************************)
(* The register words of the hardware paths: each operation is called on   *)
(* a hardware-bound device with use_hardware set, for configurations       *)
(* around the widths of the register fields and inputs of every element    *)
(* type, and the words it writes are kept.                                 *)
(***************************************************************************)
FieldKernels == {1, 11}

FieldStrides == {1, 8, 9}

FieldPaddings == {0, 3, 4}

FieldChannels == {1, 8, 9}

FieldPools == {1, 2, 8}

\* A valid 2x2 input of the element type.
TypedInput(type) == Filled(2, 2, 1, 1, type, 1)

ProgramInit ==
    /\ DeviceInit
    /\ probe \in
         {[kind |-> "program", op |-> "conv2d", done |-> FALSE,
           input |-> TypedInput(type),
           conv_config |-> ConvConfig(kernel, stride, padding, in_ch, 1,
                                      use_bias, NEURAX_ACTIVATION_RELU),
           pool_config |-> NullPoolConfig,
           activation |-> NEURAX_ACTIVATION_RELU,
           ret |-> PENDING, traffic |-> <<>>] :
             type \in DataTypes, kernel \in FieldKernels,
             stride \in FieldStrides, padding \in FieldPaddings,
             in_ch \in FieldChannels, use_bias \in BOOLEAN}
         \cup
         {[kind |-> "program", op |-> "pooling", done |-> FALSE,
           input |-> TypedInput(type),
           conv_config |-> NullConvConfig,
           pool_config |-> PoolConfig(pool, stride, pool_type),
           activation |-> NEURAX_ACTIVATION_RELU,
           ret |-> PENDING, traffic |-> <<>>] :
             type \in DataTypes, pool \in FieldPools, stride \in FieldStrides,
             pool_type \in {NEURAX_POOL_MAX, NEURAX_POOL_AVERAGE}}
         \cup
         {[kind |-> "program", op |-> "activation", done |-> FALSE,
           input |-> TypedInput(type),
           conv_config |-> NullConvConfig, pool_config |-> NullPoolConfig,
           activation |-> activation,
           ret |-> PENDING, traffic |-> <<>>] :
             type \in DataTypes,
             activation \in NEURAX_ACTIVATION_RELU .. NEURAX_ACTIVATION_LINEAR}

WordsKept(r) ==
    probe' = [probe EXCEPT !.done = TRUE, !.ret = r.ret,
                           !.traffic = r.bus.traffic]

\* neurax_conv2d(device, input, weights, NULL, config, output)
ProgramConv ==
    /\ probe.kind = "program" /\ probe.op = "conv2d" /\ ~probe.done
    /\ WordsKept(neurax_conv2d(FALSE, BoundDevice, MappedBus, probe.input,
                                WeightsOne, NullTensor, probe.conv_config,
                                Output11, 0))
    /\ UNCHANGED devVars

\* neurax_pooling(device, input, config, output), up to the wait.
ProgramPool ==
    /\ probe.kind = "program" /\ probe.op = "pooling" /\ ~probe.done
    /\ WordsKept(neurax_pooling(FALSE, BoundDevice, MappedBus, probe.input,
                                 probe.pool_config, Output11, 0))
    /\ UNCHANGED devVars

\* neurax_activation(device, input, activation, output), up to the wait.
ProgramAct ==
    /\ probe.kind = "program" /\ probe.op = "activation" /\ ~probe.done
    /\ WordsKept(neurax_activation(FALSE, BoundDevice, MappedBus, probe.input,
                                    probe.activation,
                                    Filled(2, 2, 1, 1, NEURAX_DATA_FLOAT32, 7),
                                    0))
    /\ UNCHANGED devVars

ProgramNext == ProgramConv \/ ProgramPool \/ ProgramAct

ProgramSpec == ProgramInit /\ [][ProgramNext]_vars

\* The words the call wrote to the register.
WordsWritten(register) ==
    {probe.traffic[i][3] : i \in
        {j \in 1 .. Len(probe.traffic) :
            probe.traffic[j][1] = "W" /\ probe.traffic[j][2] = register}}

\* Bits low + width - 1 .. low of the word.
Field(word, low, width) == (word \div 2 ^ low) % 2 ^ width

\* The call has written its registers.
HasProgrammed(op) ==
    /\ probe.kind = "program" /\ probe.done /\ probe.op = op
    /\ WordsWritten(NEURAX_REG_CONTROL) # {}

\* C26: the word an operation with an accepted configuration writes to the
\* convolution-config or pooling-config register decodes to
\* kernel_width - 1, stride_x - 1, padding_x, the bias flag and
\* input_channels - 1, and to pool_type, pool_width - 2 and stride_x - 1.
C26_LosslessEncoding ==
    /\ HasProgrammed("conv2d") =>
           \A word \in WordsWritten(NEURAX_REG_CONV_CONFIG) :
               LET c == probe.conv_config
               IN  /\ Field(word, 0, 4) = c.kernel_width - 1
                   /\ Field(word, 4, 3) = c.stride_x - 1
                   /\ Field(word, 7, 2) = c.padding_x
                   /\ Field(word, 9, 1) = BoolBit(c.use_bias)
                   /\ Field(word, 10, 3) = c.input_channels - 1
    /\ HasProgrammed("pooling") =>
           \A word \in WordsWritten(NEURAX_REG_POOL_CONFIG) :
               LET c == probe.pool_config
               IN  /\ Field(word, 0, 1) = c.pool_type
                   /\ Field(word, 1, 3) = c.pool_width - 2
                   /\ Field(word, 4, 3) = c.stride_x - 1

\* A convolution with padding 4 and 9 input channels, which the validation
\* accepts, wrote a word whose padding and input-channel fields hold 0.
C26_Witness ==
    /\ HasProgrammed("conv2d")
    /\ neurax_validate_conv_config(probe.conv_config) = NEURAX_SUCCESS
    /\ probe.conv_config.padding_x = 4 /\ probe.conv_config.input_channels = 9
    /\ \E word \in WordsWritten(NEURAX_REG_CONV_CONFIG) :
           Field(word, 7, 2) = 0 /\ Field(word, 10, 3) = 0

EightBitTypes == {NEURAX_DATA_UINT8, NEURAX_DATA_INT8}

\* C28: the control word an operation writes on a hardware-bound device has
\* the data-width bit clear for an 8-bit input (uint8, int8) and set for a
\* 16-bit or 32-bit input (uint16, int16, float32).
C28_DataWidthBit ==
    (\E op \in Operations : HasProgrammed(op)) =>
        \A word \in WordsWritten(NEURAX_REG_CONTROL) :
            HasBit(word, CTRL_DATA_WIDTH)
                <=> probe.input.data_type \notin EightBitTypes

\* A pooling of a float32 input wrote a control word with the data-width
\* bit clear.
C28_Witness ==
    /\ HasProgrammed("pooling")
    /\ probe.input.data_type = NEURAX_DATA_FLOAT32
    /\ \E word \in WordsWritten(NEURAX_REG_CONTROL) :
           ~HasBit(word, CTRL_DATA_WIDTH)

(***************************************************************************)
(* Windows larger than the input (ShapeSpec)                               *)
(***************************************************************************)
\* The kernel is larger than the padded input, or the pooling window
\* larger than the input, on an axis.
Oversized ==
    IF probe.op = "conv2d"
    THEN \/ probe.input.width + 2 * probe.padding < probe.window
         \/ probe.input.height + 2 * probe.padding < probe.window
    ELSE \/ probe.input.width < probe.window
         \/ probe.input.height < probe.window

\* C27: a neurax_conv2d whose kernel is larger than the padded input on an
\* axis, and a neurax_pooling whose window is larger than the input on an
\* axis, does not return Success and leaves the output as it was, whatever
\* valid output tensor it is given.
C27_OversizeRejected ==
    (probe.kind = "shape" /\ probe.op \in {"conv2d", "pooling"} /\ Oversized)
        => /\ probe.ret # NEURAX_SUCCESS
           /\ probe.after = probe.output

\* A convolution of an input one row high with a 2x2 kernel and no
\* padding returned Success for an output of the wrapped height.
C27_Witness ==
    /\ probe.kind = "shape" /\ probe.op = "conv2d"
    /\ probe.input.height = 1 /\ probe.input.width = 2
    /\ probe.window = 2 /\ probe.padding = 0
    /\ W(probe.output.height) = WrappedDim(1, probe.stride)
    /\ probe.output.width = 1
    /\ probe.ret = NEURAX_SUCCESS

(***************************************************************************)
(* Termination of neurax_wait_for_completion                               *)
(***************************************************************************)
\* A step of the polling loop.
WaitStep ==
    \/ \E status \in StatusValues : WaitPoll(status)
    \/ WaitQuiet
    \/ WaitExpire

\* The device lifecycle with neurax_wait_for_completion as its only call.
WaitNext ==
    \/ \E config_null, device_null, use_hardware, alloc_ok, open1, open2,
          mmap_ok \in BOOLEAN :
           neurax_init(config_null, device_null, use_hardware, alloc_ok,
                       open1, open2, mmap_ok)
    \/ \E view \in Views, trapped \in BOOLEAN : neurax_cleanup(view, trapped)
    \/ \E view \in Views, timeout_ms \in WaitTimeouts :
           neurax_wait_for_completion(view, timeout_ms)
    \/ WaitStep

\* The loop runs on the caller's thread and usleep returns: a wait that
\* can take a step takes one.
WaitSpec == Init /\ [][WaitNext]_vars /\ WF_vars(WaitStep)

\* timeout_ms * 1000 fits in the 32 bits it is computed in.
Fits(timeout_ms) ==
    U32DivSmall(U32MulSmall(W(timeout_ms), 1000), 1000) = W(timeout_ms)

\* Reads of the status register in the call's trace.
StatusReadCount ==
    LET quiet == Events("R*")
    IN  Cardinality({i \in Events("R") : traffic[i][2] = NEURAX_REG_STATUS})
            + (IF quiet = {} THEN 0 ELSE traffic[CHOOSE i \in quiet : TRUE][3])

\* The call is a wait, or an operation that waits, on a live device.
Waits == call.op \in {"wait", "pooling", "activation"} /\ ~call.stale

HardwareBound ==
    /\ dev.device_fd >= 0 <=> os.fd_open
    /\ dev.mapped_memory \notin {"NULL", "MAP_FAILED"} <=> os.mapped
    /\ dev.hardware_available
           <=> /\ dev.device_fd >= 0 /\ os.fd_open
               /\ os.mapped
               /\ dev.register_base # "NULL"

\* The successful neurax_init whose mapping failed after an open.
MapFailedInit ==
    /\ handle = "live" /\ call.op = "init"
    /\ call.env.open1 \/ call.env.open2
    /\ ~call.env.mmap_ok

\* The neurax_cleanup of a live device closes the descriptor once if it is
\* open and not at all otherwise, and the same for the mapping.
ReleasedOnce ==
    (handle = "live" /\ handle' = "freed")
        => /\ Cardinality(Events("close"))' = BoolBit(os.fd_open)
           /\ Cardinality(Events("munmap"))' = BoolBit(os.mapped)
           /\ ~os'.fd_open /\ ~os'.mapped

\* C30: between a successful neurax_init and neurax_cleanup,
\* hardware_available is true if and only if the descriptor is open
\* (device_fd >= 0), the register window is mapped and register_base is
\* non-null; when the mapping fails after a successful open the descriptor
\* is closed at once (device_fd = -1); and over an init/cleanup pair every
\* opened descriptor is closed exactly once and every mapping unmapped
\* exactly once, with nothing open or mapped outside the pair.
C30_HandleAndMapping ==
    /\ [](handle = "live" => HardwareBound)
    /\ [](MapFailedInit
              => /\ dev.device_fd = -1 /\ ~os.fd_open
                 /\ ~os.mapped /\ ~dev.hardware_available)
    /\ [](handle # "live" => ~os.fd_open /\ ~os.mapped)
    /\ [][ReleasedOnce]_vars

\* The cleanup of a device whose mapping had failed at init: Success with
\* no close and no munmap, the descriptor having been closed by the open.
C30_Witness ==
    /\ Returned /\ call.op = "cleanup" /\ ~call.stale
    /\ call.ret = NEURAX_SUCCESS
    /\ call.device_before.mapped_memory = "MAP_FAILED"
    /\ call.device_before.device_fd = -1
    /\ Events("close") = {} /\ Events("munmap") = {}
    /\ handle = "freed" /\ ~os.fd_open /\ ~os.mapped

====
